---- MODULE Spec2Model ----
(***************************************************************************)
(* A model of the gateway API's resolution-and-retrieval pipeline:         *)
(*   gateway_api/common/common.py   validate_nhs_number, FlaskResponse     *)
(*   gateway_api/controller.py      Controller.call_gp_connect             *)
(*   gateway_api/pds_search.py      PdsClient, find_current_* selectors    *)
(*                                                                         *)
(* Representation of Python values.                                        *)
(*   A str is a sequence of chunks.  A chunk is a single character (every  *)
(*   character the code inspects: digits, whitespace, hyphens, letters of  *)
(*   an NHS number) or a run of literal text that no operation looks into  *)
(*   (an ODS code, the literal part of a message).                         *)
(*   An int is arbitrary precision, as in Python: a sign and the sequence  *)
(*   of its decimal digits without leading zeros.                          *)
(*   Every value carries its type in the field t.                          *)
(***************************************************************************)
EXTENDS Integers, Sequences, FiniteSets, TLC

VARIABLES
    clients,            \* the classes bound to the names PdsClient, SdsClient, GpConnectClient
    request,            \* per invocation: the arguments of call_gp_connect
    frame,              \* per invocation: position and local variables of call_gp_connect
    gp_connect_client,  \* Controller.gp_connect_client, one per Controller instance
    calls,              \* the downstream calls made so far, in order
    pds_service,        \* the identity registry's answers, fixed when first asked
    sds_service,        \* the directory's answers, fixed when first asked
    gp_service,         \* the provider system's answers, fixed when first asked
    unit                \* a single call of a pure function: argument and result

vars == <<clients, request, frame, gp_connect_client, calls,
          pds_service, sds_service, gp_service, unit>>

---------------------------------------------------------------------------
(* Python values *)

None == [t |-> "None"]

PyStr(s) == [t |-> "str", v |-> s]

PyInt(neg, ds) == [t |-> "int", neg |-> neg, digits |-> ds]

\* a JSON value that is neither str nor int nor null, with the text str() gives
PyOther(type, repr) == [t |-> type, repr |-> repr]

Return(v) == [kind |-> "return", value |-> v]

Raise(exc) == [kind |-> "raise", exc |-> exc]

DigitChars == {"0", "1", "2", "3", "4", "5", "6", "7", "8", "9"}

\* SUPERSCRIPT TWO, a character of Unicode category No: str.isdigit() is true
\* of it and int() does not accept it
Superscript2 == "<U+00B2>"

\* the characters str.isdigit() is true of
IsdigitChars == DigitChars \cup {Superscript2}

Whitespace == {" ", "\t"}

DigitVal(c) ==
    CASE c = "0" -> 0 [] c = "1" -> 1 [] c = "2" -> 2 [] c = "3" -> 3
      [] c = "4" -> 4 [] c = "5" -> 5 [] c = "6" -> 6 [] c = "7" -> 7
      [] c = "8" -> 8 [] c = "9" -> 9

DigitChar(n) ==
    CASE n = 0 -> "0" [] n = 1 -> "1" [] n = 2 -> "2" [] n = 3 -> "3"
      [] n = 4 -> "4" [] n = 5 -> "5" [] n = 6 -> "6" [] n = 7 -> "7"
      [] n = 8 -> "8" [] n = 9 -> "9"

\* str.isdigit(): non-empty and every character a digit
isdigit(s) == Len(s) > 0 /\ \A i \in 1..Len(s) : s[i] \in IsdigitChars

RECURSIVE lstrip(_)
lstrip(s) ==
    IF s # <<>> /\ Head(s) \in Whitespace THEN lstrip(Tail(s)) ELSE s

RECURSIVE rstrip(_)
rstrip(s) ==
    IF s # <<>> /\ s[Len(s)] \in Whitespace
    THEN rstrip(SubSeq(s, 1, Len(s) - 1)) ELSE s

\* str.strip()
strip(s) == rstrip(lstrip(s))

IsSpace(c) == c = " "

IsNotSpace(c) == ~IsSpace(c)

\* str.replace(" ", "")
replace_spaces(s) == SelectSeq(s, IsNotSpace)

IsNotSeparator(c) == c \notin (Whitespace \cup {"-"})

\* re.sub(r"[\s-]", "", s)
re_sub_separators(s) == SelectSeq(s, IsNotSeparator)

RECURSIVE DropLeadingZeros(_)
DropLeadingZeros(ds) ==
    IF Len(ds) > 1 /\ Head(ds) = 0 THEN DropLeadingZeros(Tail(ds)) ELSE ds

\* int(s) for a str s of digits: leading zeros do not survive
\* and a character that is no decimal digit is a ValueError
py_int(s) ==
    IF s = <<>> \/ \E i \in 1..Len(s) : s[i] \notin DigitChars
    THEN Raise("ValueError")
    ELSE Return(PyInt(FALSE,
                      DropLeadingZeros([i \in 1..Len(s) |-> DigitVal(s[i])])))

\* str(value)
py_str(value) ==
    CASE value.t = "str" -> value.v
      [] value.t = "int" ->
            (IF value.neg THEN <<"-">> ELSE <<>>)
            \o [i \in 1..Len(value.digits) |-> DigitChar(value.digits[i])]
      [] value.t = "None" -> <<"N", "o", "n", "e">>
      [] OTHER -> value.repr

---------------------------------------------------------------------------
(* common.py: validate_nhs_number *)

\* weights = list(range(10, 1, -1))
weights == [i \in 1..9 |-> 11 - i]

RECURSIVE SumTo(_, _)
SumTo(f, n) == IF n = 0 THEN 0 ELSE f[n] + SumTo(f, n - 1)

\* total = sum(d * w for d, w in zip(first_nine, weights, strict=True))
weighted_total(first_nine) ==
    SumTo([i \in 1..9 |-> first_nine[i] * weights[i]], 9)

\* a check that forgets the 11 -> 0 rule
nhs_check_no_wrap(total) == 11 - (total % 11)

\* remainder = total % 11; check = 11 - remainder; if check == 11: check = 0
nhs_check(total) ==
    LET remainder == total % 11
        check     == 11 - remainder
    IN  IF check = 11 THEN 0 ELSE check

validate_nhs_number(value) ==
    LET str_value == py_str(value)
        digits    == re_sub_separators(str_value)
    IN  IF Len(digits) # 10 THEN Return(FALSE)
        ELSE IF ~isdigit(digits) THEN Return(FALSE)
        \* int(ch) for ch in digits[:9], int(digits[9])
        ELSE IF \E i \in 1..10 : digits[i] \notin DigitChars
             THEN Raise("ValueError")
        ELSE LET first_nine           == [i \in 1..9 |-> DigitVal(digits[i])]
                 provided_check_digit == DigitVal(digits[10])
                 check                == nhs_check(weighted_total(first_nine))
             IN  IF check = 10 THEN Return(FALSE)
                 ELSE Return(check = provided_check_digit)

---------------------------------------------------------------------------
(* controller.py: _coerce_nhs_number_to_int *)

\* a coercion that leaves out the modulus-11 validation
_coerce_nhs_number_to_int_unvalidated(value) ==
    LET stripped == replace_spaces(strip(value.v))
        parsed ==
            IF value.t = "str"
            THEN IF ~isdigit(stripped) THEN Raise("ValueError")
                 ELSE py_int(stripped)
            ELSE Return(value)
    IN  IF parsed.kind = "raise" THEN parsed
        ELSE IF Len(py_str(parsed.value)) # 10 THEN Raise("ValueError")
        ELSE parsed

_coerce_nhs_number_to_int(value) ==
    LET stripped == replace_spaces(strip(value.v))
        parsed ==
            IF value.t = "str"
            THEN IF ~isdigit(stripped) THEN Raise("ValueError")
                 ELSE py_int(stripped)
            ELSE Return(value)     \* AttributeError: no .strip(), taken as it is
    IN  IF parsed.kind = "raise" THEN parsed
        ELSE IF Len(py_str(parsed.value)) # 10 THEN Raise("ValueError")
        ELSE LET valid == validate_nhs_number(parsed.value)
             IN  IF valid.kind = "raise" THEN valid
                 ELSE IF ~valid.value THEN Raise("ValueError")
                 ELSE parsed

---------------------------------------------------------------------------
(* pds_search.py: the Temporal Record Selector and the PDS client *)

\* datetime.now(timezone.utc).date(), as a day number
Today == 5

\* a date string of a FHIR period: an ISO date (its day number) or any other text
Date(n) == [iso |-> TRUE, day |-> n]

NotADate == [iso |-> FALSE]

\* date.fromisoformat
date_fromisoformat(s) == IF s.iso THEN Return(s.day) ELSE Raise("ValueError")

\* dict.get(key, default)
dict_get(d, key, default) == IF key \in DOMAIN d THEN d[key] ELSE default

\* a comparison that leaves out the two bounds
period_covers_exclusive(periods, today) ==
    IF "start" \notin DOMAIN periods THEN Raise("KeyError")
    ELSE IF "end" \notin DOMAIN periods THEN Raise("KeyError")
    ELSE LET start == date_fromisoformat(periods["start"])
             end   == date_fromisoformat(periods["end"])
         IN  IF start.kind = "raise" THEN start
             ELSE IF end.kind = "raise" THEN end
             ELSE Return(start.value < today /\ today < end.value)

\* a loop body that takes a period without start or end as not covering
period_covers_lenient(periods, today) ==
    IF "start" \notin DOMAIN periods THEN Return(FALSE)
    ELSE IF "end" \notin DOMAIN periods THEN Return(FALSE)
    ELSE LET start == date_fromisoformat(periods["start"])
             end   == date_fromisoformat(periods["end"])
         IN  IF start.kind = "raise" THEN start
             ELSE IF end.kind = "raise" THEN end
             ELSE Return(start.value <= today /\ today <= end.value)

\* the body of both selector loops, for the period of one record:
\* periods["start"], periods["end"], the two fromisoformat calls, the comparison
period_covers(periods, today) ==
    IF "start" \notin DOMAIN periods THEN Raise("KeyError")
    ELSE IF "end" \notin DOMAIN periods THEN Raise("KeyError")
    ELSE LET start == date_fromisoformat(periods["start"])
             end   == date_fromisoformat(periods["end"])
         IN  IF start.kind = "raise" THEN start
             ELSE IF end.kind = "raise" THEN end
             ELSE Return(start.value <= today /\ today <= end.value)

\* a selector that takes the first record whatever its period
find_first_name_record(records, today) ==
    IF records = <<>> THEN Return(None) ELSE Return(Head(records))

RECURSIVE find_current_name_record(_, _)
find_current_name_record(records, today) ==
    IF records = <<>> THEN Return(None)
    ELSE LET record == Head(records)
         IN  IF "period" \notin DOMAIN record THEN Raise("KeyError")
             ELSE LET covers == period_covers(record["period"], today)
                  IN  IF covers.kind = "raise" THEN covers
                      ELSE IF covers.value THEN Return(record)
                      ELSE find_current_name_record(Tail(records), today)

RECURSIVE find_current_gp(_, _)
find_current_gp(records, today) ==
    IF records = <<>> THEN Return(None)
    ELSE LET record == Head(records)
         IN  IF "identifier" \notin DOMAIN record THEN Raise("KeyError")
             ELSE IF "period" \notin DOMAIN record["identifier"]
                  THEN Raise("KeyError")
             ELSE LET covers ==
                          period_covers(record["identifier"]["period"], today)
                  IN  IF covers.kind = "raise" THEN covers
                      ELSE IF covers.value THEN Return(record)
                      ELSE find_current_gp(Tail(records), today)

\* the code of the first record of the list, current or not
_get_gp_ods_code_of_first(general_practitioners) ==
    IF Len(general_practitioners) = 0 THEN Return(None)
    ELSE Return(Head(general_practitioners)["identifier"]["value"])

\* PdsClient._get_gp_ods_code
_get_gp_ods_code(general_practitioners) ==
    IF Len(general_practitioners) = 0 THEN Return(None)
    ELSE LET gp == find_current_gp(general_practitioners, Today)
         IN  IF gp.kind = "raise" THEN gp
             ELSE IF gp.value = None THEN Return(None)
             ELSE LET identifier == dict_get(gp.value, "identifier", <<>>)
                      value      == dict_get(identifier, "value", None)
                  IN  \* str(None) is "None", which is given back as None
                      IF value = None THEN Return(None)
                      ELSE Return(PyStr(py_str(value)))

RECURSIVE join(_, _)
join(sep, list) ==
    IF list = <<>> THEN <<>>
    ELSE IF Len(list) = 1 THEN Head(list)
    ELSE Head(list) \o sep \o join(sep, Tail(list))

SearchResults(given_names, family_name, nhs_number, gp_ods_code) ==
    [t |-> "SearchResults", given_names |-> given_names,
     family_name |-> family_name, nhs_number |-> nhs_number,
     gp_ods_code |-> gp_ods_code]

\* an extraction that gives None for a Bundle without entries
_extract_single_search_result_or_none(body) ==
    LET is_patient == dict_get(body, "resourceType", "") = "Patient"
        entries    == dict_get(body, "entry", <<>>)
        patient    == IF is_patient THEN body
                      ELSE dict_get(Head(entries), "resource", <<>>)
        nhs_number == strip(dict_get(patient, "id", <<>>))
        names        == dict_get(patient, "name", <<>>)
        current_name == find_current_name_record(names, Today)
        gp_list      == dict_get(patient, "generalPractitioner", <<>>)
        gp_ods_code  == _get_gp_ods_code(gp_list)
    IN  IF ~is_patient /\ entries = <<>> THEN Return(None)
        ELSE IF nhs_number = <<>> THEN Raise("RuntimeError")
        ELSE IF current_name.kind = "raise" THEN current_name
        ELSE IF current_name.value = None THEN Raise("RuntimeError")
        ELSE IF gp_ods_code.kind = "raise" THEN gp_ods_code
        ELSE Return(SearchResults(
                 strip(join(<<" ">>, dict_get(current_name.value, "given", <<>>))),
                 dict_get(current_name.value, "family", <<>>),
                 nhs_number,
                 gp_ods_code.value))

\* PdsClient._extract_single_search_result
_extract_single_search_result(body) ==
    LET is_patient == dict_get(body, "resourceType", "") = "Patient"
        entries    == dict_get(body, "entry", <<>>)
        patient    == IF is_patient THEN body
                      ELSE dict_get(Head(entries), "resource", <<>>)
        nhs_number == strip(dict_get(patient, "id", <<>>))
        names        == dict_get(patient, "name", <<>>)
        current_name == find_current_name_record(names, Today)
        gp_list      == dict_get(patient, "generalPractitioner", <<>>)
        gp_ods_code  == _get_gp_ods_code(gp_list)
    IN  IF ~is_patient /\ entries = <<>> THEN Raise("RuntimeError")
        ELSE IF nhs_number = <<>> THEN Raise("RuntimeError")
        ELSE IF current_name.kind = "raise" THEN current_name
        ELSE IF current_name.value = None THEN Raise("RuntimeError")
        ELSE IF gp_ods_code.kind = "raise" THEN gp_ods_code
        ELSE Return(SearchResults(
                 strip(join(<<" ">>, dict_get(current_name.value, "given", <<>>))),
                 dict_get(current_name.value, "family", <<>>),
                 nhs_number,
                 gp_ods_code.value))

\* a search without raise_for_status()
search_patient_by_nhs_number_unchecked(answer) ==
    IF answer.transport # "ok" THEN Raise(answer.transport)
    ELSE IF answer.json.kind = "raise" THEN answer.json
    ELSE _extract_single_search_result(answer.json.value)

\* PdsClient.search_patient_by_nhs_number, on the registry's answer to the GET:
\* requests.get raising, or a response with a status and a body
search_patient_by_nhs_number(answer) ==
    IF answer.transport # "ok" THEN Raise(answer.transport)
    ELSE IF answer.status_code >= 400 /\ answer.status_code < 600
         THEN Raise("ExternalServiceError")    \* raise_for_status()
    ELSE IF answer.json.kind = "raise" THEN answer.json     \* response.json()
    ELSE _extract_single_search_result(answer.json.value)

---------------------------------------------------------------------------
(* controller.py: the helpers of Controller.call_gp_connect *)

FlaskResponse(status_code, data, headers) ==
    [t |-> "FlaskResponse", status_code |-> status_code,
     data |-> data, headers |-> headers]

RequestError(status_code, message) ==
    [kind |-> "raise", exc |-> "RequestError",
     status_code |-> status_code, message |-> PyStr(message)]

\* the truth value of an optional str: None and "" are false
truthy(s) == s # None /\ s.v # <<>>

\* (value or "").strip()
or_empty_strip(value) == IF truthy(value) THEN strip(value.v) ELSE <<>>

\* Controller._get_details_from_body; request_body.loads is what json.loads
\* makes of the body text
_get_details_from_body(request_body) ==
    LET body == request_body.loads
    IN  IF body.kind = "raise"
        THEN RequestError(400,
                 <<"Request body must be valid JSON with an \"nhs-number\" field">>)
        ELSE IF body.value.t # "dict"    \* hasattr __getitem__ and hasattr get
        THEN RequestError(400,
                 <<"Request body must be a JSON object with an \"nhs-number\" field">>)
        ELSE LET nhs_number_value == dict_get(body.value.d, "nhs-number", None)
                 coerced          == _coerce_nhs_number_to_int(nhs_number_value)
             IN  IF nhs_number_value = None
                 THEN RequestError(400,
                          <<"Missing required field \"nhs-number\" in JSON request body">>)
                 ELSE IF coerced.kind = "raise"
                 THEN RequestError(400,
                          <<"Could not coerce NHS number \"">>
                          \o py_str(nhs_number_value) \o <<"\" to an integer">>)
                 ELSE coerced

\* an identity stage that tests the provider code against None only
_get_pds_details_accepting_empty(pds_lookup, nhs_number) ==
    IF pds_lookup.kind = "raise" THEN pds_lookup
    ELSE LET pds_result == pds_lookup.value
         IN  IF pds_result = None
             THEN RequestError(404,
                      <<"No PDS patient found for NHS number ">> \o py_str(nhs_number))
             ELSE IF pds_result.gp_ods_code # None
             THEN Return(pds_result.gp_ods_code)
             ELSE RequestError(404,
                      <<"PDS patient ">> \o py_str(nhs_number) \o <<" ",
                        "did not contain a current provider ODS code">>)

\* Controller._get_pds_details, on what pds.search_patient_by_nhs_number did
_get_pds_details(pds_lookup, nhs_number) ==
    IF pds_lookup.kind = "raise" THEN pds_lookup
    ELSE LET pds_result == pds_lookup.value
         IN  IF pds_result = None
             THEN RequestError(404,
                      <<"No PDS patient found for NHS number ">> \o py_str(nhs_number))
             ELSE IF truthy(pds_result.gp_ods_code)
             THEN Return(pds_result.gp_ods_code)
             ELSE RequestError(404,
                      <<"PDS patient ">> \o py_str(nhs_number) \o <<" ",
                        "did not contain a current provider ODS code">>)

\* a provider stage that looks at the endpoint before the ASID
\* a provider stage that leaves a missing entry to the stages after it
_get_sds_details_provider_deferring(sds_lookup, provider_ods) ==
    IF sds_lookup.kind = "raise" THEN sds_lookup
    ELSE LET provider_details == sds_lookup.value
         IN  IF provider_details = None
             THEN Return([asid |-> PyStr(<<>>), endpoint |-> PyStr(<<>>)])
             ELSE Return([asid |-> PyStr(or_empty_strip(provider_details.asid)),
                          endpoint |->
                              PyStr(or_empty_strip(provider_details.endpoint))])

_get_sds_details_provider_endpoint_first(sds_lookup, provider_ods) ==
    IF sds_lookup.kind = "raise" THEN sds_lookup
    ELSE LET provider_details  == sds_lookup.value
             provider_asid     == or_empty_strip(provider_details.asid)
             provider_endpoint == or_empty_strip(provider_details.endpoint)
         IN  IF provider_details = None
             THEN RequestError(404,
                      <<"No SDS org found for provider ODS code ">> \o provider_ods.v)
             ELSE IF provider_endpoint = <<>>
             THEN RequestError(404,
                      <<"SDS result for provider ODS code ">> \o provider_ods.v
                      \o <<" ", "did not contain a current endpoint">>)
             ELSE IF provider_asid = <<>>
             THEN RequestError(404,
                      <<"SDS result for provider ODS code ">> \o provider_ods.v
                      \o <<" ", "did not contain a current ASID">>)
             ELSE Return([asid |-> PyStr(provider_asid),
                          endpoint |-> PyStr(provider_endpoint)])

\* Controller._get_sds_details, first half: the provider's entry
_get_sds_details_provider(sds_lookup, provider_ods) ==
    IF sds_lookup.kind = "raise" THEN sds_lookup
    ELSE LET provider_details  == sds_lookup.value
             provider_asid     == or_empty_strip(provider_details.asid)
             provider_endpoint == or_empty_strip(provider_details.endpoint)
         IN  IF provider_details = None
             THEN RequestError(404,
                      <<"No SDS org found for provider ODS code ">> \o provider_ods.v)
             ELSE IF provider_asid = <<>>
             THEN RequestError(404,
                      <<"SDS result for provider ODS code ">> \o provider_ods.v
                      \o <<" ", "did not contain a current ASID">>)
             ELSE IF provider_endpoint = <<>>
             THEN RequestError(404,
                      <<"SDS result for provider ODS code ">> \o provider_ods.v
                      \o <<" ", "did not contain a current endpoint">>)
             ELSE Return([asid |-> PyStr(provider_asid),
                          endpoint |-> PyStr(provider_endpoint)])

\* a consumer stage that demands an endpoint as the provider stage does
_get_sds_details_consumer_with_endpoint(sds_lookup, consumer_ods) ==
    IF sds_lookup.kind = "raise" THEN sds_lookup
    ELSE LET consumer_details == sds_lookup.value
             consumer_asid    == or_empty_strip(consumer_details.asid)
         IN  IF consumer_details = None
             THEN RequestError(404,
                      <<"No SDS org found for consumer ODS code ">> \o consumer_ods.v)
             ELSE IF consumer_asid = <<>>
             THEN RequestError(404,
                      <<"SDS result for consumer ODS code ">> \o consumer_ods.v
                      \o <<" ", "did not contain a current ASID">>)
             ELSE IF or_empty_strip(consumer_details.endpoint) = <<>>
             THEN RequestError(404,
                      <<"SDS result for consumer ODS code ">> \o consumer_ods.v
                      \o <<" ", "did not contain a current endpoint">>)
             ELSE Return(PyStr(consumer_asid))

\* Controller._get_sds_details, second half: the consumer's entry
_get_sds_details_consumer(sds_lookup, consumer_ods) ==
    IF sds_lookup.kind = "raise" THEN sds_lookup
    ELSE LET consumer_details == sds_lookup.value
             consumer_asid    == or_empty_strip(consumer_details.asid)
         IN  IF consumer_details = None
             THEN RequestError(404,
                      <<"No SDS org found for consumer ODS code ">> \o consumer_ods.v)
             ELSE IF consumer_asid = <<>>
             THEN RequestError(404,
                      <<"SDS result for consumer ODS code ">> \o consumer_ods.v
                      \o <<" ", "did not contain a current ASID">>)
             ELSE Return(PyStr(consumer_asid))

\* dict(response.headers): a new dict with the same keys and values
dict_of(headers) == [k \in DOMAIN headers |-> headers[k]]

\* a final hop that reports every error status of the provider as a 502
fetch_outcome_reinterpreting(response) ==
    IF response # None /\ response.status_code < 400
    THEN FlaskResponse(response.status_code, response.text,
                       [t |-> "dict", d |-> dict_of(response.headers)])
    ELSE FlaskResponse(502, PyStr(<<"GP Connect service error">>), None)

\* the FlaskResponse call_gp_connect returns after access_structured_record
fetch_outcome(response) ==
    FlaskResponse(
        IF response # None THEN response.status_code ELSE 502,
        IF response # None THEN response.text
                           ELSE PyStr(<<"GP Connect service error">>),
        IF response # None THEN [t |-> "dict", d |-> dict_of(response.headers)]
                           ELSE None)

\* except RequestError as err: return FlaskResponse(err.status_code, str(err))
error_response(err) == FlaskResponse(err.status_code, err.message, None)

---------------------------------------------------------------------------
(* The requests the transport layer can hand to call_gp_connect *)

Chars(ds) == [i \in 1..Len(ds) |-> DigitChar(ds[i])]

Dict(d) == [t |-> "dict", d |-> d]

Nhs9434765919 == <<9, 4, 3, 4, 7, 6, 5, 9, 1, 9>>

Nhs9000000009 == <<9, 0, 0, 0, 0, 0, 0, 0, 0, 9>>

\* values of the "nhs-number" field of a request body
NhsNumberValues ==
    { PyStr(Chars(Nhs9434765919)),
      PyStr(Chars(Nhs9000000009)),
      PyStr(Chars(<<9, 4, 3>>) \o <<" ">> \o Chars(<<4, 7, 6>>) \o <<" ">>
            \o Chars(<<5, 9, 1, 9>>)),
      PyStr(Chars(<<9, 4, 3>>) \o <<"-">> \o Chars(<<4, 7, 6>>) \o <<"-">>
            \o Chars(<<5, 9, 1, 9>>)),
      PyStr(Chars(<<9, 4, 3, 4, 7, 6, 5, 9, 1, 8>>)),
      PyStr(Chars(<<9, 4, 3, 4, 7, 6, 5, 9, 1>>)),
      PyStr(Chars(<<0, 0, 0, 0, 0, 0, 0, 0, 0, 0>>)),
      PyStr(<<"A", "B", "C">>),
      PyStr(Chars(<<9, 4, 3, 4, 7, 6, 5, 9, 1>>) \o <<Superscript2>>),
      PyStr(<<>>),
      PyInt(FALSE, Nhs9434765919),
      PyInt(FALSE, <<9, 4, 3, 4, 7, 6, 5, 9, 1, 8>>),
      PyInt(FALSE, <<9, 4, 3, 4, 7, 6, 5, 9, 1>>),
      PyInt(TRUE, <<9, 4, 3, 4, 7, 6, 5, 9, 1>>),
      PyOther("float", Chars(<<9, 4, 3, 4, 7, 6, 5, 9>>) \o <<".", "5">>),
      PyOther("list", <<"[">> \o Chars(<<9, 4, 3, 4, 7, 6, 5, 9>>) \o <<"]">>) }

\* request bodies, each with what json.loads makes of it
RequestBodies ==
    { [t |-> "str", loads |-> Raise("JSONDecodeError")],
      [t |-> "None", loads |-> Raise("TypeError")],
      [t |-> "str", loads |-> Return(PyOther("list", <<"[", "]">>))],
      [t |-> "str", loads |-> Return(PyStr(Chars(Nhs9434765919)))],
      [t |-> "str", loads |-> Return(Dict(<<>>))],
      [t |-> "str", loads |-> Return(Dict("nhs-number" :> None))] }
    \cup { [t |-> "str", loads |-> Return(Dict("nhs-number" :> v))] :
              v \in NhsNumberValues }

Absent == [t |-> "absent"]

HeaderValues ==
    { Absent, PyStr(<<>>), PyStr(<<" ", " ">>), PyStr(<<"ORG1">>),
      PyStr(<<" ", "ORG1", "\t">>), PyStr(<<"A12345">>) }

TraceValues ==
    { Absent, PyStr(<<>>), PyStr(<<" ">>), PyStr(<<"trace-123">>) }

Item(key, value) == IF value = Absent THEN <<>> ELSE (key :> value)

RequestHeaders ==
    { Item("Ods-from", o) @@ Item("X-Request-ID", x) :
          o \in HeaderValues, x \in TraceValues }

---------------------------------------------------------------------------
(* The downstream services *)

\* the classes the names PdsClient, SdsClient and GpConnectClient of the
\* controller module can be bound to: the class the module defines or imports,
\* or another implementation of the same interface (a test double, the full
\* client of sds_search.py or provider_request.py)
ClientBindings ==
    [pds : {"PdsClient", "double"},
     sds : {"SdsClient", "double"},
     gp  : {"GpConnectClient", "double"}]

Period(s, e) == [start |-> Date(s), end |-> Date(e)]

NameRecord(s, e) ==
    [period |-> Period(s, e), given |-> << <<"Jane">> >>, family |-> <<"Doe">>]

NameNoPeriod == [given |-> << <<"Jane">> >>, family |-> <<"Doe">>]

GpRecord(ods, s, e) ==
    [identifier |-> [value |-> PyStr(<<ods>>), period |-> Period(s, e)]]

GpNoPeriod(ods) == [identifier |-> [value |-> PyStr(<<ods>>)]]

Patient(names, gps) ==
    [resourceType |-> "Patient", id |-> <<"9434765919">>,
     name |-> names, generalPractitioner |-> gps]

Bundle(entries) == [resourceType |-> "Bundle", entry |-> entries]

\* documents the identity registry can answer with
PdsDocuments ==
    { Patient(<<NameRecord(1, 9)>>, <<GpRecord("A12345", 1, 9)>>),
      Patient(<<NameRecord(1, 9)>>, <<GpRecord("ORG1", 1, 9)>>),
      Patient(<<NameRecord(1, 3), NameRecord(4, 9)>>,
              <<GpRecord("B67890", 1, 4), GpRecord("A12345", 5, 9)>>),
      Patient(<<NameRecord(1, 9)>>, <<>>),
      Patient(<<NameRecord(1, 9)>>, <<GpRecord("A12345", 1, 3)>>),
      Patient(<<NameRecord(1, 9)>>, <<GpNoPeriod("A12345")>>),
      Patient(<<NameRecord(1, 9)>>,
              <<GpRecord("B67890", 1, 4), GpNoPeriod("A12345")>>),
      Patient(<<NameRecord(1, 9)>>,
              <<GpRecord("A12345", 1, 9), GpNoPeriod("B67890")>>),
      Patient(<<NameRecord(1, 9)>>,
              <<[identifier |-> [value  |-> PyStr(<<"A12345">>),
                                 period |-> [start |-> Date(1)]]]>>),
      Patient(<<NameRecord(1, 3)>>, <<GpRecord("A12345", 1, 9)>>),
      Patient(<<NameNoPeriod>>, <<GpRecord("A12345", 1, 9)>>),
      Patient(<<>>, <<GpRecord("A12345", 1, 9)>>),
      Bundle(<<>>),
      Bundle(<< [resource |->
                    Patient(<<NameRecord(1, 9)>>, <<GpRecord("A12345", 1, 9)>>)] >>),
      [resourceType |-> "OperationOutcome"] }

HttpResponse(status_code, json) ==
    [transport |-> "ok", status_code |-> status_code, json |-> json]

\* what the GET of the identity registry can do
PdsRegistryAnswers ==
    { [transport |-> "ConnectionError"],
      HttpResponse(404, Return([resourceType |-> "OperationOutcome"])),
      HttpResponse(500, Raise("JSONDecodeError")),
      HttpResponse(200, Raise("JSONDecodeError")) }
    \cup { HttpResponse(200, Return(doc)) : doc \in PdsDocuments }

\* what a double of PdsClient can do: the declared result, SearchResults | None
PdsDoubleAnswers ==
    { Return(None), Raise("ExternalServiceError") }
    \cup { Return([t |-> "SimpleNamespace", gp_ods_code |-> code]) :
              code \in {None, PyStr(<<>>), PyStr(<<"A12345">>), PyStr(<<"ORG1">>)} }

SdsSearchResults(asid, endpoint) ==
    [t |-> "SdsSearchResults", asid |-> asid, endpoint |-> endpoint]

\* SdsClient.get_org_details of controller.py, a placeholder
sds_placeholder(ods_code) ==
    Return(SdsSearchResults(PyStr(<<"asid_">> \o ods_code.v),
                            PyStr(<<"https://example-provider.org/endpoint">>)))

\* what a double of SdsClient can do: the declared result, SdsSearchResults | None
SdsDoubleAnswers(ods_code) ==
    { Return(None), Raise("ExternalServiceError") }
    \cup { Return(SdsSearchResults(asid, endpoint)) :
              asid \in { None, PyStr(<<>>), PyStr(<<" ", "\t">>),
                         PyStr(<<"asid_">> \o ods_code.v),
                         PyStr(<<" ", "asid_">> \o ods_code.v \o <<" ">>) },
              endpoint \in { None, PyStr(<<" ">>),
                             PyStr(<<"https://provider.example/ep">>) } }

Response(status_code, text, headers) ==
    [t |-> "Response", status_code |-> status_code,
     text |-> PyStr(text), headers |-> headers]

\* what a double of GpConnectClient can do: the declared result,
\* requests.Response | None
GpDoubleAnswers ==
    { Return(None), Raise("ExternalServiceError"),
      Return(Response(200, <<"{\"resourceType\":\"Bundle\"}">>,
                 ("Content-Type" :> PyStr(<<"application/fhir+json">>))
                 @@ ("X-Downstream" :> PyStr(<<"gp-provider">>)))),
      Return(Response(404, <<"Not Found">>,
                 ("Content-Type" :> PyStr(<<"text/plain">>))
                 @@ ("X-Downstream" :> PyStr(<<"gp-provider">>)))),
      Return(Response(500, <<>>, <<>>)) }

\* the answers a service can give for a key: the one it gave before, if any
Answers(service, key, fresh) ==
    IF key \in DOMAIN service THEN {service[key]} ELSE fresh

---------------------------------------------------------------------------
(* Controller.call_gp_connect, step by step *)

Pending == [kind |-> "pending"]

\* the local variables of one invocation before its first step
InitFrame ==
    [pc |-> "body", nhs_number |-> None, consumer_ods |-> None,
     trace_id |-> None, pds_result |-> Pending, provider_ods |-> None,
     provider_details |-> Pending, provider_asid |-> None,
     provider_endpoint |-> None, consumer_details |-> Pending,
     consumer_asid |-> None, response |-> Pending, outcome |-> Pending]

\* return a FlaskResponse, or let an exception escape
Finish(i, result) ==
    [frame EXCEPT ![i].pc = "done", ![i].outcome = result]

\* a try block without its except clause
Caught_nothing(raised) == raised

\* a try block that reports every exception as not found
Caught_as_not_found(raised) ==
    IF raised.exc = "RequestError" THEN Return(error_response(raised))
    ELSE Return(FlaskResponse(404, PyStr(<<"Not found">>), None))

\* what a try block with "except RequestError" makes of a raise
Caught(raised) ==
    IF raised.exc = "RequestError" THEN Return(error_response(raised))
    ELSE raised

\* lines 364-370
GetDetailsFromBody(i) ==
    /\ frame[i].pc = "body"
    /\ LET r == _get_details_from_body(request[i].request_body)
       IN  frame' = IF r.kind = "raise" THEN Finish(i, Caught(r))
                    ELSE [frame EXCEPT ![i].pc = "headers",
                                       ![i].nhs_number = r.value]
    /\ UNCHANGED <<clients, request, gp_connect_client, calls,
                   pds_service, sds_service, gp_service, unit>>

\* header checks that do not strip Ods-from
check_headers_unstripped(headers) ==
    LET consumer_ods == dict_get(headers, "Ods-from", PyStr(<<>>)).v
        trace_id     == dict_get(headers, "X-Request-ID", None)
    IN  IF consumer_ods = <<>>
        THEN [kind |-> "respond", response |-> FlaskResponse(400,
                 PyStr(<<"Missing required header \"Ods-from\"">>), None)]
        ELSE IF trace_id = None
        THEN [kind |-> "respond", response |-> FlaskResponse(400,
                 PyStr(<<"Missing required header: X-Request-ID">>), None)]
        ELSE Return([consumer_ods |-> PyStr(consumer_ods), trace_id |-> trace_id])

\* lines 372-384: the two header checks, each returning a FlaskResponse at once
check_headers(headers) ==
    LET consumer_ods == strip(dict_get(headers, "Ods-from", PyStr(<<>>)).v)
        trace_id     == dict_get(headers, "X-Request-ID", None)
    IN  IF consumer_ods = <<>>
        THEN [kind |-> "respond", response |-> FlaskResponse(400,
                 PyStr(<<"Missing required header \"Ods-from\"">>), None)]
        ELSE IF trace_id = None
        THEN [kind |-> "respond", response |-> FlaskResponse(400,
                 PyStr(<<"Missing required header: X-Request-ID">>), None)]
        ELSE Return([consumer_ods |-> PyStr(consumer_ods), trace_id |-> trace_id])

CheckHeaders(i) ==
    /\ frame[i].pc = "headers"
    /\ LET r == check_headers(request[i].headers)
       IN  frame' =
             IF r.kind = "respond" THEN Finish(i, Return(r.response))
             ELSE [frame EXCEPT ![i].pc = "pds",
                                ![i].consumer_ods = r.value.consumer_ods,
                                ![i].trace_id = r.value.trace_id]
    /\ UNCHANGED <<clients, request, gp_connect_client, calls,
                   pds_service, sds_service, gp_service, unit>>

\* the auth_token argument of call_gp_connect, handed on to the clients
auth_token == <<"token">>

\* str(uuid.uuid4()): a value made up for the call
uuid4 == PyStr(<<"<uuid4>">>)

\* PdsClient._build_headers, for a client made at lines 238-244
\* (nhsd_session_urid is None)
PdsClient_build_headers(end_user_org_ods, request_id, correlation_id) ==
    ("Authorization" :> PyStr(<<"Bearer ">> \o auth_token))
    @@ ("X-Request-ID" :> IF truthy(request_id) THEN request_id ELSE uuid4)
    @@ ("NHSD-End-User-Organisation-ODS" :> end_user_org_ods)
    @@ ("Accept" :> PyStr(<<"application/fhir+json">>))
    @@ (IF truthy(correlation_id) THEN ("X-Correlation-ID" :> correlation_id)
        ELSE <<>>)

\* an identity stage that asks again when the client raises
GetPdsDetails_retrying(i) ==
    /\ frame[i].pc = "pds"
    /\ LET n == frame[i].nhs_number
       IN  \E answer \in Answers(pds_service, n,
                           IF clients.pds = "PdsClient" THEN PdsRegistryAnswers
                           ELSE PdsDoubleAnswers) :
             LET pds_lookup == IF clients.pds = "PdsClient"
                               THEN search_patient_by_nhs_number(answer)
                               ELSE answer
                 r == _get_pds_details(pds_lookup, n)
                 f == [frame EXCEPT ![i].pds_result = pds_lookup]
             IN  /\ pds_service' = pds_service @@ (n :> answer)
                 /\ calls' = Append(calls,
                        [inv |-> i, service |-> "pds", nhs_number |-> n,
                         end_user_org_ods |-> frame[i].consumer_ods,
                         request_id |-> None, correlation_id |-> None,
                         headers |-> <<>>])
                 /\ frame' =
                      IF pds_lookup.kind = "raise" THEN f
                      ELSE IF r.kind = "raise"
                      THEN [f EXCEPT ![i].pc = "done", ![i].outcome = Caught(r)]
                      ELSE [f EXCEPT ![i].pc = "sds_provider",
                                     ![i].provider_ods = r.value]
    /\ UNCHANGED <<clients, request, gp_connect_client, sds_service,
                   gp_service, unit>>

\* lines 386-389 and _get_pds_details
GetPdsDetails(i) ==
    /\ frame[i].pc = "pds"
    /\ LET n == frame[i].nhs_number
       IN  \E answer \in Answers(pds_service, n,
                           IF clients.pds = "PdsClient" THEN PdsRegistryAnswers
                           ELSE PdsDoubleAnswers) :
             LET pds_lookup == IF clients.pds = "PdsClient"
                               THEN search_patient_by_nhs_number(answer)
                               ELSE answer
                 r == _get_pds_details(pds_lookup, n)
                 f == [frame EXCEPT ![i].pds_result = pds_lookup]
             IN  /\ pds_service' = pds_service @@ (n :> answer)
                 /\ calls' = Append(calls,
                        [inv |-> i, service |-> "pds", nhs_number |-> n,
                         end_user_org_ods |-> frame[i].consumer_ods,
                         \* search_patient_by_nhs_number(nhs_number): the
                         \* two ids keep their default
                         request_id |-> None, correlation_id |-> None,
                         headers |->
                            IF clients.pds = "PdsClient"
                            THEN PdsClient_build_headers(
                                     frame[i].consumer_ods, None, None)
                            ELSE <<>>])
                 /\ frame' =
                      IF r.kind = "raise"
                      THEN [f EXCEPT ![i].pc = "done", ![i].outcome = Caught(r)]
                      ELSE [f EXCEPT ![i].pc = "sds_provider",
                                     ![i].provider_ods = r.value]
    /\ UNCHANGED <<clients, request, gp_connect_client, sds_service,
                   gp_service, unit>>

\* sds.get_org_details(ods_code) of the class bound to SdsClient
SdsAnswers(ods_code) ==
    Answers(sds_service, ods_code,
            IF clients.sds = "SdsClient" THEN {sds_placeholder(ods_code)}
            ELSE SdsDoubleAnswers(ods_code))

\* lines 391-396 and _get_sds_details up to line 316
GetSdsProviderDetails(i) ==
    /\ frame[i].pc = "sds_provider"
    /\ LET ods == frame[i].provider_ods
       IN  \E answer \in SdsAnswers(ods) :
             LET r == _get_sds_details_provider(answer, ods)
                 f == [frame EXCEPT ![i].provider_details = answer]
             IN  /\ sds_service' = sds_service @@ (ods :> answer)
                 /\ calls' = Append(calls,
                        [inv |-> i, service |-> "sds", ods_code |-> ods])
                 /\ frame' =
                      IF r.kind = "raise"
                      THEN [f EXCEPT ![i].pc = "done", ![i].outcome = Caught(r)]
                      ELSE [f EXCEPT ![i].pc = "sds_consumer",
                                     ![i].provider_asid = r.value.asid,
                                     ![i].provider_endpoint = r.value.endpoint]
    /\ UNCHANGED <<clients, request, gp_connect_client, pds_service,
                   gp_service, unit>>

\* _get_sds_details from line 318, and lines 391-396
GetSdsConsumerDetails(i) ==
    /\ frame[i].pc = "sds_consumer"
    /\ LET ods == frame[i].consumer_ods
       IN  \E answer \in SdsAnswers(ods) :
             LET r == _get_sds_details_consumer(answer, ods)
                 f == [frame EXCEPT ![i].consumer_details = answer]
             IN  /\ sds_service' = sds_service @@ (ods :> answer)
                 /\ calls' = Append(calls,
                        [inv |-> i, service |-> "sds", ods_code |-> ods])
                 /\ frame' =
                      IF r.kind = "raise"
                      THEN [f EXCEPT ![i].pc = "done", ![i].outcome = Caught(r)]
                      ELSE [f EXCEPT ![i].pc = "gp_client",
                                     ![i].consumer_asid = r.value]
    /\ UNCHANGED <<clients, request, gp_connect_client, pds_service,
                   gp_service, unit>>

\* a controller that makes its client once and refuses a second fetch
MakeGpConnectClient_once(i) ==
    /\ frame[i].pc = "gp_client"
    /\ IF gp_connect_client[request[i].controller] = None
       THEN /\ gp_connect_client' =
                  [gp_connect_client EXCEPT ![request[i].controller] =
                      [t |-> "GpConnectClient",
                       provider_endpoint |-> frame[i].provider_endpoint,
                       provider_asid     |-> frame[i].provider_asid,
                       consumer_asid     |-> frame[i].consumer_asid]]
            /\ frame' = [frame EXCEPT ![i].pc = "fetch"]
       ELSE /\ UNCHANGED gp_connect_client
            /\ frame' = Finish(i, Return(FlaskResponse(409,
                            PyStr(<<"Already fetched">>), None)))
    /\ UNCHANGED <<clients, request, calls, pds_service, sds_service,
                   gp_service, unit>>

\* a client built with the two ASIDs in each other's place
MakeGpConnectClient_swapped(i) ==
    /\ frame[i].pc = "gp_client"
    /\ gp_connect_client' =
          [gp_connect_client EXCEPT ![request[i].controller] =
              [t |-> "GpConnectClient",
               provider_endpoint |-> frame[i].provider_endpoint,
               provider_asid     |-> frame[i].consumer_asid,
               consumer_asid     |-> frame[i].provider_asid]]
    /\ frame' = [frame EXCEPT ![i].pc = "fetch"]
    /\ UNCHANGED <<clients, request, calls, pds_service, sds_service,
                   gp_service, unit>>

\* lines 399-403: self.gp_connect_client = GpConnectClient(...)
MakeGpConnectClient(i) ==
    /\ frame[i].pc = "gp_client"
    /\ gp_connect_client' =
          [gp_connect_client EXCEPT ![request[i].controller] =
              [t |-> "GpConnectClient",
               provider_endpoint |-> frame[i].provider_endpoint,
               provider_asid     |-> frame[i].provider_asid,
               consumer_asid     |-> frame[i].consumer_asid]]
    /\ frame' = [frame EXCEPT ![i].pc = "fetch"]
    /\ UNCHANGED <<clients, request, calls, pds_service, sds_service,
                   gp_service, unit>>

\* lines 405-418: self.gp_connect_client.access_structured_record(...) and
\* the FlaskResponse made of its result
AccessStructuredRecord(i) ==
    /\ frame[i].pc = "fetch"
    /\ LET call == [inv |-> i, service |-> "gp",
                    client   |-> gp_connect_client[request[i].controller],
                    trace_id |-> frame[i].trace_id,
                    body     |-> request[i].request_body,
                    nhsnumber |-> PyStr(py_str(frame[i].nhs_number))]
           key  == [call EXCEPT !.inv = 0]
       IN  \E answer \in Answers(gp_service, key,
                           IF clients.gp = "GpConnectClient" THEN {Return(None)}
                           ELSE GpDoubleAnswers) :
             /\ gp_service' = gp_service @@ (key :> answer)
             /\ calls' = Append(calls, call)
             /\ frame' =
                  [frame EXCEPT
                     ![i].pc = "done",
                     ![i].response = answer,
                     ![i].outcome =
                        IF answer.kind = "raise" THEN answer
                        ELSE Return(fetch_outcome(answer.value))]
    /\ UNCHANGED <<clients, request, gp_connect_client, pds_service,
                   sds_service, unit>>

Step(i) ==
    \/ GetDetailsFromBody(i)
    \/ CheckHeaders(i)
    \/ GetPdsDetails(i)
    \/ GetSdsProviderDetails(i)
    \/ GetSdsConsumerDetails(i)
    \/ MakeGpConnectClient(i)
    \/ AccessStructuredRecord(i)

\* a pure function without a pending call
NoUnit == [fn |-> "none"]

\* one Controller, constructed (gp_connect_client = None), and one call of
\* call_gp_connect on it
Init ==
    /\ clients \in ClientBindings
    /\ request \in [{1} -> [request_body : RequestBodies,
                            headers : RequestHeaders,
                            controller : {1}]]
    /\ frame = [i \in {1} |-> InitFrame]
    /\ gp_connect_client = [c \in {1} |-> None]
    /\ calls = <<>>
    /\ pds_service = <<>>
    /\ sds_service = <<>>
    /\ gp_service = <<>>
    /\ unit = NoUnit

Next == \E i \in DOMAIN frame : Step(i)

Spec == Init /\ [][Next]_vars

---------------------------------------------------------------------------
(* call_gp_connect called twice with the same request, one call after the  *)
(* other, on one Controller or on two                                      *)

\* the requests of the repeated call: a complete one, one that asks with
\* padded values, one without trace id, one with a number that is not valid
RepeatedRequests ==
    { [request_body |-> [t |-> "str", loads |-> Return(Dict("nhs-number" :> n))],
       headers |-> Item("Ods-from", o) @@ Item("X-Request-ID", x)] :
          n \in { PyStr(Chars(Nhs9434765919)), PyInt(FALSE, Nhs9000000009),
                  PyStr(Chars(<<9, 4, 3, 4, 7, 6, 5, 9, 1, 8>>)) },
          o \in { PyStr(<<"ORG1">>), PyStr(<<" ", "ORG1", "\t">>) },
          x \in { Absent, PyStr(<<"trace-123">>) } }

\* which Controller each of the two calls is made on
ControllerChoices == { [i \in {1, 2} |-> 1], [i \in {1, 2} |-> i] }

InitTwice ==
    /\ clients \in ClientBindings
    /\ \E r \in RepeatedRequests, on \in ControllerChoices :
          request = [i \in {1, 2} |->
                        [request_body |-> r.request_body, headers |-> r.headers,
                         controller |-> on[i]]]
    /\ frame = [i \in {1, 2} |-> InitFrame]
    /\ gp_connect_client = [c \in {1, 2} |-> None]
    /\ calls = <<>>
    /\ pds_service = <<>>
    /\ sds_service = <<>>
    /\ gp_service = <<>>
    /\ unit = NoUnit

\* the calls made before this one have returned
Alone(i) == \A j \in DOMAIN frame : j < i => frame[j].pc = "done"

NextTwice == \E i \in DOMAIN frame : Alone(i) /\ Step(i)

SpecTwice == InitTwice /\ [][NextTwice]_vars

---------------------------------------------------------------------------
(* two calls of call_gp_connect running at the same time, on one           *)
(* Controller or on two, their steps interleaved in any order              *)

\* the requests of the concurrent calls: two patients, two requesting
\* organisations; the call numbered i carries the trace id "trace-i"
ConcurrentRequests ==
    { [request_body |-> [t |-> "str", loads |-> Return(Dict("nhs-number" :> n))],
       headers |-> Item("Ods-from", o)] :
          n \in { PyStr(Chars(Nhs9434765919)), PyInt(FALSE, Nhs9000000009) },
          o \in { PyStr(<<"ORG1">>), PyStr(<<"ORG2">>) } }

\* the identity service is a double, the directory is the SdsClient of
\* controller.py, which answers every organisation with its own ASID
ConcurrentBindings ==
    { b \in ClientBindings : b.pds = "double" /\ b.sds = "SdsClient" }

\* the first call asks for one patient on behalf of ORG1
FirstRequest(r) ==
    /\ r.request_body.loads = Return(Dict("nhs-number" :> PyStr(Chars(Nhs9434765919))))
    /\ r.headers = Item("Ods-from", PyStr(<<"ORG1">>))

InitConcurrent ==
    /\ clients \in ConcurrentBindings
    /\ \E r \in { q \in [{1, 2} -> ConcurrentRequests] : FirstRequest(q[1]) },
          on \in ControllerChoices :
          request = [i \in {1, 2} |->
                        [request_body |-> r[i].request_body,
                         headers |-> r[i].headers
                             @@ Item("X-Request-ID", PyStr(<<"trace-", ToString(i)>>)),
                         controller |-> on[i]]]
    /\ frame = [i \in {1, 2} |-> InitFrame]
    /\ gp_connect_client = [c \in {1, 2} |-> None]
    /\ calls = <<>>
    /\ pds_service = <<>>
    /\ sds_service = <<>>
    /\ gp_service = <<>>
    /\ unit = NoUnit

SpecConcurrent == InitConcurrent /\ [][Next]_vars

---------------------------------------------------------------------------
(* validate_nhs_number called on its own *)

\* how many trailing digits of a base number are varied
FreeDigits == 3

ValidateBases ==
    { Nhs9434765919, Nhs9000000009, <<0, 0, 0, 0, 0, 0, 0, 0, 0, 0>> }

\* the 10-digit numbers that agree with a base outside their last FreeDigits digits
DigitStrings ==
    { [i \in 1..10 |-> IF i <= 10 - FreeDigits THEN base[i]
                       ELSE tail[i - (10 - FreeDigits)]] :
          base \in ValidateBases, tail \in [1..FreeDigits -> 0..9] }

\* where separators are put into a 10-digit string: before the digit at each
\* position, and (position 11) after the last digit
SeparatorPatterns ==
    { (4 :> <<" ">>) @@ (7 :> <<" ">>),
      (4 :> <<"-">>) @@ (7 :> <<"-">>),
      (1 :> <<" ", "-">>) @@ (6 :> <<"-", " ">>) @@ (11 :> <<"\t">>),
      (2 :> <<"-">>) @@ (11 :> <<"-", "-">>) }

RECURSIVE Separated(_, _, _)
Separated(chars, pattern, k) ==
    IF k > Len(chars) + 1 THEN <<>>
    ELSE (IF k \in DOMAIN pattern THEN pattern[k] ELSE <<>>)
         \o (IF k <= Len(chars) THEN <<chars[k]>> ELSE <<>>)
         \o Separated(chars, pattern, k + 1)

\* the forms a caller can give a 10-digit number: the string, the string with
\* separators, the int
FormsOf(ds) ==
    { PyStr(Chars(ds)), PyInt(FALSE, DropLeadingZeros(ds)) }
    \cup { PyStr(Separated(Chars(ds), pattern, 1)) : pattern \in SeparatorPatterns }

\* strings with a character that is neither digit nor separator
NonNumericStrings ==
    { PyStr(<<"N", "O", "T", "_", "A", "_", "N", "U", "M", "B", "E", "R">>),
      PyStr(Chars(<<9, 4, 3, 4, 7>>) \o <<"A">> \o Chars(<<6, 5, 9, 1, 9>>)),
      PyStr(Chars(<<9, 4, 3, 4, 7, 6, 5, 9, 1>>) \o <<"A">>),
      PyStr(Chars(<<9, 4, 3>>) \o <<"_">> \o Chars(<<4, 7, 6, 5, 9, 1, 9>>)),
      PyStr(<<Superscript2>> \o Chars(<<4, 3, 4, 7, 6, 5, 9, 1, 9>>)),
      PyStr(Chars(<<9, 4, 3>>) \o <<" ">> \o Chars(<<4, 7, 6>>) \o <<"-">>
            \o Chars(<<5, 9, 1>>) \o <<Superscript2>>),
      PyStr(Chars(<<9, 4, 3, 4, 7, 6, 5, 9, 1, 9, 0>>)),
      None }

\* the calls of validate_nhs_number: the argument, and the digits of the
\* 10-digit number it is a form of (none if it was not made from one)
ValidateArguments ==
    UNION { { [arg |-> a, base |-> ds] : a \in FormsOf(ds) } :
                ds \in DigitStrings }
    \cup { [arg |-> a, base |-> <<>>] :
              a \in NhsNumberValues \cup NonNumericStrings }

InitValidate ==
    /\ unit \in { [fn |-> "validate_nhs_number", arg |-> a.arg, base |-> a.base,
                   done |-> FALSE, result |-> [kind |-> "pending"]] :
                     a \in ValidateArguments }
    /\ clients = [pds |-> "PdsClient", sds |-> "SdsClient", gp |-> "GpConnectClient"]
    /\ request = <<>>
    /\ frame = <<>>
    /\ gp_connect_client = <<>>
    /\ calls = <<>>
    /\ pds_service = <<>>
    /\ sds_service = <<>>
    /\ gp_service = <<>>

CallValidateNhsNumber ==
    /\ unit.fn = "validate_nhs_number"
    /\ ~unit.done
    /\ unit' = [unit EXCEPT !.done = TRUE,
                            !.result = validate_nhs_number(unit.arg)]
    /\ UNCHANGED <<clients, request, frame, gp_connect_client, calls,
                   pds_service, sds_service, gp_service>>

NextValidate == CallValidateNhsNumber

SpecValidate == InitValidate /\ [][NextValidate]_vars

---------------------------------------------------------------------------
(* find_current_gp and find_current_name_record called on their own *)

\* the longest list of records
MaxRecords == 2

\* the last day of the calendar of the records' periods; the first is day 1
MaxDay == 2

Days == 1..MaxDay

\* what a record can have for a period: a period with both dates, one that
\* lacks a date, one with a date that is no ISO date, or none at all
NoPeriod == [lacks |-> "period"]

PeriodShapes ==
    { Period(start, end) : start \in Days, end \in Days }
    \cup { [end |-> Date(MaxDay)], [start |-> Date(1)],
           [start |-> NotADate, end |-> Date(MaxDay)],
           [start |-> Date(1), end |-> NotADate],
           NoPeriod }

\* the k-th record of a Patient.name list, with the period of the shape
NameRecordOf(k, shape) ==
    LET names == [given |-> << <<"Jane">> >>, family |-> <<"Doe", ToString(k)>>]
    IN  IF shape = NoPeriod THEN names
        ELSE [period |-> shape, given |-> names.given, family |-> names.family]

\* a generalPractitioner record without its identifier
NoIdentifier == [type |-> "Organization"]

\* the k-th record of a Patient.generalPractitioner list
GpRecordOf(k, shape) ==
    IF shape = NoIdentifier THEN [type |-> "Organization", reference |-> ToString(k)]
    ELSE IF shape = NoPeriod THEN [identifier |-> [value |-> PyStr(<<"GP", ToString(k)>>)]]
    ELSE [identifier |-> [value |-> PyStr(<<"GP", ToString(k)>>), period |-> shape]]

RecordLists(shapes) == UNION { [1..n -> shapes] : n \in 0..MaxRecords }

SelectorCalls ==
    { [fn |-> "find_current_name_record",
       records |-> [k \in DOMAIN l |-> NameRecordOf(k, l[k])], today |-> today] :
          l \in RecordLists(PeriodShapes), today \in Days }
    \cup
    { [fn |-> "find_current_gp",
       records |-> [k \in DOMAIN l |-> GpRecordOf(k, l[k])], today |-> today] :
          l \in RecordLists(PeriodShapes \cup {NoIdentifier}), today \in Days }

InitSelect ==
    /\ unit \in { [fn |-> c.fn, records |-> c.records, today |-> c.today,
                   done |-> FALSE, result |-> [kind |-> "pending"]] :
                     c \in SelectorCalls }
    /\ clients = [pds |-> "PdsClient", sds |-> "SdsClient", gp |-> "GpConnectClient"]
    /\ request = <<>>
    /\ frame = <<>>
    /\ gp_connect_client = <<>>
    /\ calls = <<>>
    /\ pds_service = <<>>
    /\ sds_service = <<>>
    /\ gp_service = <<>>

CallFindCurrentGp ==
    /\ unit.fn = "find_current_gp"
    /\ ~unit.done
    /\ unit' = [unit EXCEPT !.done = TRUE,
                            !.result = find_current_gp(unit.records, unit.today)]
    /\ UNCHANGED <<clients, request, frame, gp_connect_client, calls,
                   pds_service, sds_service, gp_service>>

CallFindCurrentNameRecord ==
    /\ unit.fn = "find_current_name_record"
    /\ ~unit.done
    /\ unit' = [unit EXCEPT
                   !.done = TRUE,
                   !.result = find_current_name_record(unit.records, unit.today)]
    /\ UNCHANGED <<clients, request, frame, gp_connect_client, calls,
                   pds_service, sds_service, gp_service>>

NextSelect == CallFindCurrentGp \/ CallFindCurrentNameRecord

SpecSelect == InitSelect /\ [][NextSelect]_vars

---------------------------------------------------------------------------
(* provider_request.py: GpProviderClient.access_structured_record on its own *)

ARS_INTERACTION_ID ==
    "urn:nhs:names:services:gpconnect:structured:fhir:operation:gpc.getstructuredrecord-1"

\* "/".join([ARS_FHIR_BASE, FHIR_RESOURCE, ARS_FHIR_OPERATION])
endpoint_path == <<"FHIR/STU3", "patient", "$gpc.getstructuredrecord">>

\* a base URL: scheme and host, the segments of its path, and whether it ends
\* with "/"
Url(origin, path, slash) == [origin |-> origin, path |-> path, slash |-> slash]

\* urllib.parse.urljoin(base, relative path): the last segment of the base
\* path is replaced unless the base ends with "/"
urljoin(base, relative) ==
    LET kept == IF base.slash \/ base.path = <<>> THEN base.path
                ELSE SubSeq(base.path, 1, Len(base.path) - 1)
    IN  Url(base.origin, kept \o relative, FALSE)

GpProviderClient(provider_endpoint, provider_asid, consumer_asid) ==
    [t |-> "GpProviderClient", provider_endpoint |-> provider_endpoint,
     provider_asid |-> provider_asid, consumer_asid |-> consumer_asid]

\* GpProviderClient._build_headers
GpProviderClient_build_headers(self, trace_id) ==
    ("Content-Type" :> PyStr(<<"application/fhir+json">>))
    @@ ("Accept" :> PyStr(<<"application/fhir+json">>))
    @@ ("Ssp-InteractionID" :> PyStr(<<ARS_INTERACTION_ID>>))
    @@ ("Ssp-To" :> self.provider_asid)
    @@ ("Ssp-From" :> self.consumer_asid)
    @@ ("Ssp-TraceID" :> trace_id)

\* the arguments of the call of post: url, headers=, data=, timeout=TIMEOUT
post_arguments(self, trace_id, body) ==
    [url     |-> urljoin(self.provider_endpoint, endpoint_path),
     headers |-> GpProviderClient_build_headers(self, trace_id),
     data    |-> body,
     timeout |-> None]

\* what the module's name post is bound to: _stubbed_post as written, or
\* requests.post (or a test's fake of it) put in its place
PostBindings == {"_stubbed_post", "requests.post"}

\* what requests.post can do: a response of some status, or a transport error
PostAnswers ==
    { Return(Response(200, <<"{\"resourceType\":\"Bundle\"}">>,
                 ("Content-Type" :> PyStr(<<"application/fhir+json">>)))),
      Return(Response(204, <<>>, <<>>)),
      Return(Response(302, <<>>, ("Location" :> PyStr(<<"https://elsewhere">>)))),
      Return(Response(400, <<"Bad Request">>, <<>>)),
      Return(Response(404, <<"Not Found">>,
                 ("X-Downstream" :> PyStr(<<"gp-provider">>)))),
      Return(Response(500, <<>>, <<>>)),
      Raise("ConnectionError"),
      Raise("Timeout") }

\* _stubbed_post(trace_id, body) called with the arguments of requests.post:
\* it has no parameter headers, data or timeout
stubbed_post_called == Raise("TypeError")

\* an adapter without raise_for_status()
access_structured_record_passing(posted) == posted

\* GpProviderClient.access_structured_record, on what post did
access_structured_record(posted) ==
    IF posted.kind = "raise" THEN posted
    ELSE IF posted.value.status_code >= 400 /\ posted.value.status_code < 600
         THEN Raise("ExternalServiceError")       \* raise_for_status()
    ELSE posted

ProviderEndpoints ==
    { Url("https://test.com", <<>>, FALSE),
      Url("https://example-provider.org", <<"endpoint">>, FALSE),
      Url("https://provider.example", <<"gp", "fhir">>, TRUE) }

ProviderCalls ==
    [post     : PostBindings,
     self     : { GpProviderClient(e, PyStr(<<"200000001154">>),
                                   PyStr(<<"200000001152">>)) :
                      e \in ProviderEndpoints },
     trace_id : { PyStr(<<"trace-123">>), PyStr(<<"invalid for test">>),
                  PyStr(<<" ">>) },
     body     : { PyStr(<<"body">>), PyStr(<<"{\"nhs-number\": \"9434765919\"}">>) }]

InitProvider ==
    /\ unit \in { [fn |-> "access_structured_record", post |-> c.post,
                   self |-> c.self, trace_id |-> c.trace_id, body |-> c.body,
                   done |-> FALSE, posted |-> [kind |-> "pending"],
                   result |-> [kind |-> "pending"]] : c \in ProviderCalls }
    /\ clients = [pds |-> "PdsClient", sds |-> "SdsClient", gp |-> "GpConnectClient"]
    /\ request = <<>>
    /\ frame = <<>>
    /\ gp_connect_client = <<>>
    /\ calls = <<>>
    /\ pds_service = <<>>
    /\ sds_service = <<>>
    /\ gp_service = <<>>

CallAccessStructuredRecord ==
    /\ unit.fn = "access_structured_record"
    /\ ~unit.done
    /\ \E posted \in (IF unit.post = "_stubbed_post" THEN {stubbed_post_called}
                      ELSE PostAnswers) :
          /\ unit' = [unit EXCEPT !.done = TRUE,
                                  !.posted = posted,
                                  !.result = access_structured_record(posted)]
          /\ calls' = Append(calls,
                 [inv |-> 0, service |-> "post",
                  arguments |-> post_arguments(unit.self, unit.trace_id, unit.body)])
    /\ UNCHANGED <<clients, request, frame, gp_connect_client,
                   pds_service, sds_service, gp_service>>

NextProvider == CallAccessStructuredRecord

SpecProvider == InitProvider /\ [][NextProvider]_vars

---------------------------------------------------------------------------
(* The transport layer: GetStructuredRecordRequest takes the FlaskResponse *)
(* of the Controller and builds the HTTP response                          *)

\* the response bodies of the model that are JSON documents
JsonDocuments == { <<"{\"resourceType\":\"Bundle\"}">> }

\* json.loads of a str
json_loads(data) ==
    IF data.v \in JsonDocuments THEN Return([t |-> "dict", text |-> data.v])
    ELSE Raise("JSONDecodeError")

OperationOutcome(diagnostics) ==
    [t |-> "OperationOutcome", severity |-> "error", code |-> "exception",
     diagnostics |-> diagnostics]

\* GetStructuredRecordRequest.set_negative_response
set_negative_response(error, status_code) ==
    [_status_code |-> status_code, _response_body |-> OperationOutcome(error)]

\* a transport layer that keeps the status of a body it cannot decode
set_response_from_flaskresponse_keeping_status(flask_response) ==
    IF truthy(flask_response.data)
    THEN LET loaded == json_loads(flask_response.data)
         IN  IF loaded.kind = "return"
             THEN [_status_code |-> flask_response.status_code,
                   _response_body |-> loaded.value]
             ELSE set_negative_response("Failed to decode response body: ",
                                        flask_response.status_code)
    ELSE set_negative_response("No response body received",
                               flask_response.status_code)

\* GetStructuredRecordRequest.set_response_from_flaskresponse: the fields
\* _status_code and _response_body it leaves
set_response_from_flaskresponse(flask_response) ==
    IF truthy(flask_response.data)
    THEN LET loaded == json_loads(flask_response.data)
         IN  IF loaded.kind = "return"
             THEN [_status_code |-> flask_response.status_code,
                   _response_body |-> loaded.value]
             ELSE set_negative_response("Failed to decode response body: ", 500)
    ELSE set_negative_response("No response body received",
                               flask_response.status_code)

\* GetStructuredRecordRequest.build_response
build_response(self) ==
    [t |-> "Response", response |-> self._response_body,
     status |-> self._status_code, mimetype |-> "application/fhir+json"]

\* the FlaskResponse made of each RequestError among the results
ErrorResponses(results) ==
    { error_response(r) :
        r \in { x \in results : x.kind = "raise" /\ x.exc = "RequestError" } }

\* the organisations and patients of the outcomes
OutcomeOdsCodes == { PyStr(<<"ORG1">>), PyStr(<<"ORG2">>), PyStr(<<"A12345">>) }

OutcomeNhsNumbers == { PyInt(FALSE, Nhs9434765919), PyInt(FALSE, Nhs9000000009) }

\* the FlaskResponses call_gp_connect returns: the error of each stage and
\* the response of the provider
ControllerOutcomes ==
    ErrorResponses({ _get_details_from_body(b) : b \in RequestBodies })
    \cup { check_headers(h).response :
             h \in { g \in RequestHeaders : check_headers(g).kind = "respond" } }
    \cup ErrorResponses({ _get_pds_details(a, n) :
                            a \in PdsDoubleAnswers, n \in OutcomeNhsNumbers })
    \cup UNION { ErrorResponses({ _get_sds_details_provider(a, o) :
                                    a \in SdsDoubleAnswers(o) })
                 \cup ErrorResponses({ _get_sds_details_consumer(a, o) :
                                    a \in SdsDoubleAnswers(o) }) :
                 o \in OutcomeOdsCodes }
    \cup { fetch_outcome(a.value) :
             a \in { g \in GpDoubleAnswers : g.kind = "return" } }

InitTransport ==
    /\ unit \in { [fn |-> "handle", flask_response |-> r, pc |-> "set_response",
                   self |-> [_status_code |-> None, _response_body |-> None],
                   result |-> [kind |-> "pending"]] : r \in ControllerOutcomes }
    /\ clients = [pds |-> "PdsClient", sds |-> "SdsClient", gp |-> "GpConnectClient"]
    /\ request = <<>>
    /\ frame = <<>>
    /\ gp_connect_client = <<>>
    /\ calls = <<>>
    /\ pds_service = <<>>
    /\ sds_service = <<>>
    /\ gp_service = <<>>

\* GetStructuredRecordHandler.handle, line 16
SetResponseFromFlaskresponse ==
    /\ unit.fn = "handle"
    /\ unit.pc = "set_response"
    /\ unit' = [unit EXCEPT
                  !.pc = "build_response",
                  !.self = set_response_from_flaskresponse(unit.flask_response)]
    /\ UNCHANGED <<clients, request, frame, gp_connect_client, calls,
                   pds_service, sds_service, gp_service>>

\* the HTTP response made after the handler has returned
BuildResponse ==
    /\ unit.fn = "handle"
    /\ unit.pc = "build_response"
    /\ unit' = [unit EXCEPT !.pc = "done",
                            !.result = Return(build_response(unit.self))]
    /\ UNCHANGED <<clients, request, frame, gp_connect_client, calls,
                   pds_service, sds_service, gp_service>>

NextTransport == SetResponseFromFlaskresponse \/ BuildResponse

SpecTransport == InitTransport /\ [][NextTransport]_vars

---------------------------------------------------------------------------
(* sds_search.SdsClient.get_org_details: the Device query and the Endpoint *)
(* query of the directory                                                  *)

ASID_SYSTEM == "https://fhir.nhs.uk/Id/nhsSpineASID"

PARTYKEY_SYSTEM == "https://fhir.nhs.uk/Id/nhsMhsPartyKey"

\* a bundle that knows the entry valid on the reference date
_extract_current_entry(bundle) ==
    LET entries == dict_get(bundle.d, "entry", <<>>)
        current == { k \in DOMAIN entries :
                       /\ "resource" \in DOMAIN entries[k].d
                       /\ "period" \in DOMAIN entries[k].d["resource"].d
                       /\ period_covers(entries[k].d["resource"].d["period"],
                                        Today) = Return(TRUE) }
    IN  IF current = {} THEN None
        ELSE entries[CHOOSE k \in current : \A l \in current : k <= l].d["resource"]

\* SdsClient._extract_first_entry
_extract_first_entry(bundle) ==
    LET entries == dict_get(bundle.d, "entry", <<>>)
    IN  IF entries = <<>> THEN None
        ELSE dict_get(entries[1].d, "resource", Dict(<<>>))

\* SdsClient._extract_identifier
_extract_identifier(device, system) ==
    LET identifiers == dict_get(device.d, "identifier", <<>>)
        found == { k \in DOMAIN identifiers :
                     /\ dict_get(identifiers[k].d, "system", "") = system
                     /\ truthy(dict_get(identifiers[k].d, "value", None)) }
    IN  IF found = {} THEN None
        ELSE PyStr(strip(identifiers[CHOOSE k \in found :
                                        \A l \in found : k <= l].d["value"].v))

\* SdsClient._query_sds after the GET: raise_for_status and response.json()
_query_sds(response) ==
    IF response.status_code >= 400 THEN Raise("ExternalServiceError")
    ELSE response.json

\* get_org_details, lines 168-185: what the Device bundle gives, and whether
\* the Endpoint query is to be made
device_step(queried) ==
    IF queried.kind = "raise"
    THEN [pc |-> "done", asid |-> None, party_key |-> None, result |-> queried]
    ELSE LET device == _extract_first_entry(queried.value)
         IN  IF device = None
             THEN [pc |-> "done", asid |-> None, party_key |-> None,
                   result |-> Return(None)]
             ELSE LET asid      == _extract_identifier(device, ASID_SYSTEM)
                      party_key == _extract_identifier(device, PARTYKEY_SYSTEM)
                  IN  IF truthy(party_key)
                      THEN [pc |-> "endpoint", asid |-> asid,
                            party_key |-> party_key, result |-> Pending]
                      ELSE [pc |-> "done", asid |-> asid, party_key |-> party_key,
                            result |-> Return(SdsSearchResults(asid, None))]

\* get_org_details, lines 193-199: the result after the Endpoint query
endpoint_step(asid, queried) ==
    IF queried.kind = "raise" THEN queried
    ELSE LET endpoint == _extract_first_entry(queried.value)
             address  == IF endpoint = None \/ endpoint = Dict(<<>>) THEN None
                         ELSE dict_get(endpoint.d, "address", None)
         IN  Return(SdsSearchResults(asid,
                 IF truthy(address) THEN PyStr(strip(address.v)) ELSE None))

Identifier(system, value) == Dict(("system" :> system) @@ Item("value", value))

\* a Device resource with its ASID, its party key and its validity period
Device(asid, party_key, period) ==
    Dict(("resourceType" :> "Device")
         @@ ("identifier" :> << Identifier(PARTYKEY_SYSTEM, party_key),
                                Identifier(ASID_SYSTEM, asid) >>)
         @@ ("period" :> period))

\* an Endpoint resource with its address and its validity period
Endpoint(address, period) ==
    Dict(("resourceType" :> "Endpoint") @@ Item("address", address)
         @@ ("period" :> period))

Entry(resource) == Dict("resource" :> resource)

\* whether the entry is valid on the reference date or was before it
EntryPeriods == { Period(1, 2), Period(1, 9) }

DeviceEntries ==
    { Dict(<<>>) }
    \cup { Entry(Device(asid, party_key, period)) :
              asid \in { Absent, PyStr(<<"asid-1">>), PyStr(<<" ", "asid-2", " ">>) },
              party_key \in { Absent, PyStr(<<" ">>), PyStr(<<"PK-1">>) },
              period \in EntryPeriods }

\* the most entries a Device bundle has
MaxEntries == 2

BundlesOf(entries, n) ==
    { Dict(<<>>) } \cup { Dict("entry" :> l) : l \in UNION { [1..k -> entries] : k \in 0..n } }

\* what the GET of /Device can do
DeviceAnswers ==
    { HttpResponse(500, Raise("JSONDecodeError")) }
    \cup { HttpResponse(200, Return(b)) : b \in BundlesOf(DeviceEntries, MaxEntries) }

EndpointEntries ==
    { Dict(<<>>) }
    \cup { Entry(Endpoint(address, period)) :
              address \in { Absent, PyStr(<<>>), PyStr(<<"https://a.example/fhir">>),
                            PyStr(<<" ", "https://b.example/fhir", "\n">>) },
              period \in EntryPeriods }

\* what the GET of /Endpoint can do
EndpointAnswers ==
    { HttpResponse(404, Raise("JSONDecodeError")) }
    \cup { HttpResponse(200, Return(b)) : b \in BundlesOf(EndpointEntries, 1) }
    \cup { HttpResponse(200, Return(Dict("entry" :>
               << Entry(Endpoint(PyStr(<<"https://a.example/fhir">>), Period(1, 2))),
                  Entry(Endpoint(PyStr(<<"https://b.example/fhir">>), Period(1, 9))) >>))),
           HttpResponse(200, Return(Dict("entry" :>
               << Entry(Endpoint(Absent, Period(1, 2))),
                  Entry(Endpoint(PyStr(<<"https://b.example/fhir">>), Period(1, 9))) >>))) }

InitSds ==
    /\ unit \in { [fn |-> "get_org_details", ods_code |-> o, pc |-> "device",
                   device_bundle |-> Pending, endpoint_bundle |-> Pending,
                   asid |-> None, party_key |-> None, result |-> Pending] :
                     o \in { PyStr(<<"ORG1">>) } }
    /\ clients = [pds |-> "PdsClient", sds |-> "SdsClient", gp |-> "GpConnectClient"]
    /\ request = <<>>
    /\ frame = <<>>
    /\ gp_connect_client = <<>>
    /\ calls = <<>>
    /\ pds_service = <<>>
    /\ sds_service = <<>>
    /\ gp_service = <<>>

\* a Device step that asks for the Endpoint whatever the party key is
QueryDevice_then_always_endpoint ==
    /\ unit.fn = "get_org_details"
    /\ unit.pc = "device"
    /\ \E response \in DeviceAnswers :
          LET queried == _query_sds(response)
              step    == device_step(queried)
          IN  /\ unit' = [unit EXCEPT !.pc = IF queried.kind = "raise" THEN "done"
                                             ELSE "endpoint",
                                      !.device_bundle = queried,
                                      !.asid = step.asid,
                                      !.party_key = step.party_key,
                                      !.result = IF queried.kind = "raise"
                                                 THEN queried ELSE Pending]
              /\ calls' = Append(calls,
                     [inv |-> 0, service |-> "sds_get", querytype |-> "Device",
                      ods_code |-> unit.ods_code, party_key |-> None])
    /\ UNCHANGED <<clients, request, frame, gp_connect_client,
                   pds_service, sds_service, gp_service>>

\* get_org_details, step 1 (lines 168-185)
QueryDevice ==
    /\ unit.fn = "get_org_details"
    /\ unit.pc = "device"
    /\ \E response \in DeviceAnswers :
          LET queried == _query_sds(response)
              step    == device_step(queried)
          IN  /\ unit' = [unit EXCEPT !.pc = step.pc,
                                      !.device_bundle = queried,
                                      !.asid = step.asid,
                                      !.party_key = step.party_key,
                                      !.result = step.result]
              /\ calls' = Append(calls,
                     [inv |-> 0, service |-> "sds_get", querytype |-> "Device",
                      ods_code |-> unit.ods_code, party_key |-> None])
    /\ UNCHANGED <<clients, request, frame, gp_connect_client,
                   pds_service, sds_service, gp_service>>

\* get_org_details, step 2 (lines 186-199)
QueryEndpoint ==
    /\ unit.fn = "get_org_details"
    /\ unit.pc = "endpoint"
    /\ \E response \in EndpointAnswers :
          LET queried == _query_sds(response)
          IN  /\ unit' = [unit EXCEPT !.pc = "done",
                                      !.endpoint_bundle = queried,
                                      !.result = endpoint_step(unit.asid, queried)]
              /\ calls' = Append(calls,
                     [inv |-> 0, service |-> "sds_get", querytype |-> "Endpoint",
                      ods_code |-> unit.ods_code, party_key |-> unit.party_key])
    /\ UNCHANGED <<clients, request, frame, gp_connect_client,
                   pds_service, sds_service, gp_service>>

NextSds == QueryDevice \/ QueryEndpoint

SpecSds == InitSds /\ [][NextSds]_vars

---------------------------------------------------------------------------
(* Vocabulary of the properties *)

Invocations == DOMAIN frame

Done(i) == frame[i].pc = "done"

\* call_gp_connect returned this FlaskResponse
Returned(i, status_code, data, headers) ==
    /\ Done(i)
    /\ frame[i].outcome = Return(FlaskResponse(status_code, data, headers))

\* call_gp_connect returned a FlaskResponse with this status
ReturnedStatus(i, status_code) ==
    /\ Done(i)
    /\ frame[i].outcome.kind = "return"
    /\ frame[i].outcome.value.t = "FlaskResponse"
    /\ frame[i].outcome.value.status_code = status_code

\* the text has this phrase in it
Contains(text, phrase) ==
    /\ text # None
    /\ \E k \in 1..Len(text.v) : text.v[k] = phrase

BodyContains(i, phrase) == Contains(frame[i].outcome.value.data, phrase)

\* None, empty or whitespace only
Blank(text) ==
    text = None \/ \A k \in 1..Len(text.v) : text.v[k] \in Whitespace

\* the text without the whitespace at its two ends
Trimmed(text) ==
    LET first == CHOOSE a \in 1..Len(text.v) :
                     /\ text.v[a] \notin Whitespace
                     /\ \A k \in 1..(a - 1) : text.v[k] \in Whitespace
        last  == CHOOSE b \in 1..Len(text.v) :
                     /\ text.v[b] \notin Whitespace
                     /\ \A k \in (b + 1)..Len(text.v) : text.v[k] \in Whitespace
    IN  PyStr(SubSeq(text.v, first, last))

\* the downstream calls one invocation made, in order
CallsOf(i) == SelectSeq(calls, LAMBDA c : c.inv = i)

ServicesCalled(i) == { CallsOf(i)[k].service : k \in 1..Len(CallsOf(i)) }

HeaderMissingOrBlank(i, name) ==
    \/ name \notin DOMAIN request[i].headers
    \/ Blank(request[i].headers[name])

BodyAccepted(i) ==
    _get_details_from_body(request[i].request_body).kind = "return"

LookedUp(lookup) == lookup.kind = "return"

Record(lookup) == lookup.value

---------------------------------------------------------------------------
(* Properties of call_gp_connect *)

DownstreamRaise(i) ==
    { r \in { frame[i].pds_result, frame[i].provider_details,
              frame[i].consumer_details, frame[i].response } :
          r.kind = "raise" }

C2_Passthrough ==
    \A i \in Invocations :
        (/\ Done(i)
         /\ LookedUp(frame[i].response)
         /\ Record(frame[i].response) # None) =>
            LET response == Record(frame[i].response)
                outcome  == frame[i].outcome.value
            IN  /\ frame[i].outcome.kind = "return"
                /\ outcome.status_code = response.status_code
                /\ outcome.data = response.text
                /\ outcome.headers # None
                /\ DOMAIN outcome.headers.d = DOMAIN response.headers
                /\ \A h \in DOMAIN response.headers :
                       outcome.headers.d[h] = response.headers[h]

\* the provider answered 404 "Not Found" with X-Downstream and the outcome is
\* that answer
C2_Witness ==
    /\ Done(1)
    /\ LookedUp(frame[1].response)
    /\ Record(frame[1].response) # None
    /\ Record(frame[1].response).status_code = 404
    /\ ReturnedStatus(1, 404)
    /\ frame[1].outcome.value.data = PyStr(<<"Not Found">>)
    /\ frame[1].outcome.value.headers.d["X-Downstream"] = PyStr(<<"gp-provider">>)

\* C3 as stated: when the provider fetch returns None the outcome is 502
\* with the body "GP provider service error" and no headers.
C3_NullIs502ProviderError ==
    \A i \in Invocations :
        (Done(i) /\ frame[i].response = Return(None)) =>
            Returned(i, 502, PyStr(<<"GP provider service error">>), None)

\* C4: after a valid request, an identity lookup that returns no patient
\* ends in 404 "No PDS patient found for NHS number <n>", one that returns a
\* patient without provider code (None or "") ends in 404 "... did not
\* contain a current provider ODS code", and in both cases the identity
\* lookup is the only downstream call made.
C4_IdentityNotFound ==
    \A i \in Invocations :
        (Done(i) /\ LookedUp(frame[i].pds_result)) =>
            LET patient == Record(frame[i].pds_result)
            IN  /\ patient = None =>
                      /\ Returned(i, 404,
                             PyStr(<<"No PDS patient found for NHS number ">>
                                   \o py_str(frame[i].nhs_number)), None)
                      /\ ServicesCalled(i) = {"pds"}
                /\ (patient # None
                    /\ patient.gp_ods_code \in {None, PyStr(<<>>)}) =>
                      /\ ReturnedStatus(i, 404)
                      /\ BodyContains(i, "did not contain a current provider ODS code")
                      /\ ServicesCalled(i) = {"pds"}

\* PdsClient found a patient without current provider and the outcome is the
\* 404 about the provider ODS code, after the identity lookup alone
C4_Witness ==
    /\ clients.pds = "PdsClient"
    /\ Done(1)
    /\ LookedUp(frame[1].pds_result)
    /\ Record(frame[1].pds_result) # None
    /\ Record(frame[1].pds_result).gp_ods_code = None
    /\ ReturnedStatus(1, 404)
    /\ Len(CallsOf(1)) = 1

\* C5: for the provider ODS code X of the identity lookup: no directory entry
\* gives 404 "No SDS org found for provider ODS code X"; else a blank ASID
\* gives 404 "... did not contain a current ASID"; else a blank endpoint
\* gives 404 "... did not contain a current endpoint"; blank is None, empty
\* or whitespace only; no provider fetch is made in any of these cases.
C5_ProviderDirectoryChecks ==
    \A i \in Invocations :
        (Done(i) /\ LookedUp(frame[i].provider_details)) =>
            LET entry == Record(frame[i].provider_details)
            IN  /\ entry = None =>
                      /\ Returned(i, 404,
                             PyStr(<<"No SDS org found for provider ODS code ">>
                                   \o frame[i].provider_ods.v), None)
                      /\ "gp" \notin ServicesCalled(i)
                /\ (entry # None /\ Blank(entry.asid)) =>
                      /\ ReturnedStatus(i, 404)
                      /\ BodyContains(i, "did not contain a current ASID")
                      /\ "gp" \notin ServicesCalled(i)
                /\ (entry # None /\ ~Blank(entry.asid) /\ Blank(entry.endpoint)) =>
                      /\ ReturnedStatus(i, 404)
                      /\ BodyContains(i, "did not contain a current endpoint")
                      /\ "gp" \notin ServicesCalled(i)

\* an entry with a whitespace-only ASID and no endpoint: the ASID is reported
C5_Witness ==
    /\ Done(1)
    /\ LookedUp(frame[1].provider_details)
    /\ Record(frame[1].provider_details) # None
    /\ Record(frame[1].provider_details).asid = PyStr(<<" ", "\t">>)
    /\ Record(frame[1].provider_details).endpoint = None
    /\ ReturnedStatus(1, 404)
    /\ BodyContains(1, "did not contain a current ASID")

\* C6 as stated: the consumer's directory entry fails as the provider's does:
\* no entry 404, blank ASID 404, blank endpoint 404, the message naming the
\* consumer ODS code.
C6_ConsumerSameTaxonomy ==
    \A i \in Invocations :
        (Done(i) /\ LookedUp(frame[i].consumer_details)) =>
            LET entry == Record(frame[i].consumer_details)
            IN  /\ entry = None => ReturnedStatus(i, 404)
                /\ (entry # None /\ Blank(entry.asid)) => ReturnedStatus(i, 404)
                /\ (entry # None /\ ~Blank(entry.asid) /\ Blank(entry.endpoint)) =>
                      /\ ReturnedStatus(i, 404)
                      /\ BodyContains(i, "did not contain a current endpoint")

\* C6 amended: for the consumer ODS code Y of the request: no directory entry
\* gives 404 "No SDS org found for consumer ODS code Y", a blank ASID gives
\* 404 "SDS result for consumer ODS code Y did not contain a current ASID",
\* and the endpoint of the consumer's entry is not examined: with a non-blank
\* ASID the stage succeeds whatever the endpoint, and the provider fetch is
\* made with the trimmed ASID.
C6_ConsumerDirectoryChecks ==
    \A i \in Invocations :
        (Done(i) /\ LookedUp(frame[i].consumer_details)) =>
            LET entry == Record(frame[i].consumer_details)
                Y     == frame[i].consumer_ods.v
            IN  /\ entry = None =>
                      /\ Returned(i, 404,
                             PyStr(<<"No SDS org found for consumer ODS code ">> \o Y),
                             None)
                      /\ "gp" \notin ServicesCalled(i)
                /\ (entry # None /\ Blank(entry.asid)) =>
                      /\ Returned(i, 404,
                             PyStr(<<"SDS result for consumer ODS code ">> \o Y
                                   \o <<" ", "did not contain a current ASID">>),
                             None)
                      /\ "gp" \notin ServicesCalled(i)
                /\ (entry # None /\ ~Blank(entry.asid)) =>
                      /\ frame[i].consumer_asid = Trimmed(entry.asid)
                      /\ "gp" \in ServicesCalled(i)

\* a consumer entry with an ASID and no endpoint, and the provider's 200 as
\* the outcome
C6_Witness ==
    /\ Done(1)
    /\ LookedUp(frame[1].consumer_details)
    /\ Record(frame[1].consumer_details) # None
    /\ Record(frame[1].consumer_details).endpoint = None
    /\ ~Blank(Record(frame[1].consumer_details).asid)
    /\ ReturnedStatus(1, 200)

\* C7: with an acceptable body, an Ods-from header that is missing, empty or
\* whitespace only gives 400 'Missing required header "Ods-from"' and no
\* downstream call.
C7_MissingOdsFrom ==
    \A i \in Invocations :
        (Done(i) /\ BodyAccepted(i) /\ HeaderMissingOrBlank(i, "Ods-from")) =>
            /\ Returned(i, 400,
                   PyStr(<<"Missing required header \"Ods-from\"">>), None)
            /\ CallsOf(i) = <<>>

\* a whitespace-only Ods-from under an acceptable body, answered 400
C7_Witness ==
    /\ Done(1)
    /\ BodyAccepted(1)
    /\ "Ods-from" \in DOMAIN request[1].headers
    /\ request[1].headers["Ods-from"] = PyStr(<<" ", " ">>)
    /\ ReturnedStatus(1, 400)
    /\ CallsOf(1) = <<>>

\* C8 as stated: an X-Request-ID that is missing or blank (empty or
\* whitespace only) gives 400 and no downstream call.
C8_MissingOrBlankTraceId ==
    \A i \in Invocations :
        (Done(i) /\ HeaderMissingOrBlank(i, "X-Request-ID")) =>
            /\ ReturnedStatus(i, 400)
            /\ CallsOf(i) = <<>>

\* the four messages of _get_details_from_body, by their first words
BodyErrors ==
    { "Request body must be valid JSON with an \"nhs-number\" field",
      "Request body must be a JSON object with an \"nhs-number\" field",
      "Missing required field \"nhs-number\" in JSON request body",
      "Could not coerce NHS number \"" }

\* the body is no JSON, no JSON object, has no "nhs-number", or has one that
\* is no 10-digit integer passing the modulus-11 check
BodyRejected(i) ==
    LET body == request[i].request_body.loads
    IN  \/ body.kind = "raise"
        \/ body.value.t # "dict"
        \/ "nhs-number" \notin DOMAIN body.value.d
        \/ body.value.d["nhs-number"] = None
        \/ _coerce_nhs_number_to_int(body.value.d["nhs-number"]).kind = "raise"

\* C9: a rejected body gives 400 with the body's own error, whatever the
\* headers are (they are not read), and no downstream call; so every number
\* the identity registry is asked for passes validate_nhs_number.
C9_BodyValidatedFirst ==
    /\ \A i \in Invocations :
          (Done(i) /\ BodyRejected(i)) =>
              /\ ReturnedStatus(i, 400)
              /\ frame[i].outcome.value.data.v[1] \in BodyErrors
              /\ frame[i].consumer_ods = None
              /\ frame[i].trace_id = None
              /\ CallsOf(i) = <<>>
    /\ \A k \in 1..Len(calls) :
          calls[k].service = "pds" =>
              validate_nhs_number(calls[k].nhs_number) = Return(TRUE)

\* a number with a wrong check digit and no headers at all: the 400 is the
\* body's
C9_Witness ==
    /\ Done(1)
    /\ request[1].request_body.loads =
          Return(Dict("nhs-number" :> PyStr(Chars(<<9, 4, 3, 4, 7, 6, 5, 9, 1, 8>>))))
    /\ DOMAIN request[1].headers = {}
    /\ ReturnedStatus(1, 400)
    /\ BodyContains(1, "Could not coerce NHS number \"")
    /\ CallsOf(1) = <<>>

---------------------------------------------------------------------------
(* Properties of validate_nhs_number *)

TenDigits(value) ==
    value.t = "str" /\ Len(value.v) = 10 /\ \A k \in 1..10 : value.v[k] \in DigitChars

\* check = 11 - ((10*d1 + 9*d2 + ... + 2*d9) mod 11), with 11 replaced by 0
CheckOf(d) ==
    LET c == 11 - ((10 * d[1] + 9 * d[2] + 8 * d[3] + 7 * d[4] + 6 * d[5]
                    + 5 * d[6] + 4 * d[7] + 3 * d[8] + 2 * d[9]) % 11)
    IN  IF c = 11 THEN 0 ELSE c

\* C10: for a 10-digit string, validate_nhs_number is true iff the check value
\* is not 10 and equals the tenth digit; "0000000000" is valid and
\* "0000000060" is not.
C10_CheckDigit ==
    (unit.fn = "validate_nhs_number" /\ unit.done /\ TenDigits(unit.arg)) =>
        LET d == [k \in 1..10 |-> DigitVal(unit.arg.v[k])]
        IN  /\ unit.result = Return(CheckOf(d) # 10 /\ CheckOf(d) = d[10])
            /\ unit.arg = PyStr(Chars(<<0, 0, 0, 0, 0, 0, 0, 0, 0, 0>>))
                  => unit.result = Return(TRUE)
            /\ unit.arg = PyStr(Chars(<<0, 0, 0, 0, 0, 0, 0, 0, 6, 0>>))
                  => unit.result = Return(FALSE)

\* "0000000060", whose check value is 10, found invalid
C10_Witness ==
    /\ unit.fn = "validate_nhs_number"
    /\ unit.done
    /\ unit.arg = PyStr(Chars(<<0, 0, 0, 0, 0, 0, 0, 0, 6, 0>>))
    /\ CheckOf([k \in 1..10 |-> DigitVal(unit.arg.v[k])]) = 10
    /\ unit.result = Return(FALSE)

\* the text without its whitespace and hyphen characters; every other
\* character stays
WithoutSeparators(text) ==
    SelectSeq(text, LAMBDA c : c \notin {" ", "\t", "-"})

TenDecimalDigits(text) ==
    Len(text) = 10 /\ \A k \in 1..10 : text[k] \in DigitChars

\* C11 as stated: validate_nhs_number returns false, and does not raise, for
\* every input that without its whitespace and hyphens is not exactly ten
\* digits; a letter or any other character is not removed.
C11_FalseNeverRaises ==
    (/\ unit.fn = "validate_nhs_number"
     /\ unit.done
     /\ ~TenDecimalDigits(WithoutSeparators(py_str(unit.arg)))) =>
        unit.result = Return(FALSE)

\* C12 as stated: for a 10-digit numeric string s, validate_nhs_number gives
\* the same result for s, for s with spaces and hyphens put in, and for the
\* integer whose decimal digits are s.
C12_SameResultForAllForms ==
    (/\ unit.fn = "validate_nhs_number"
     /\ unit.done
     /\ unit.base # <<>>) =>
        unit.result = validate_nhs_number(PyStr(Chars(unit.base)))

---------------------------------------------------------------------------
(* Properties of the selectors *)

SelectorDone ==
    unit.fn \in {"find_current_gp", "find_current_name_record"} /\ unit.done

\* the selector of the generalPractitioner list is called
OfGps == unit.fn = "find_current_gp"

\* where a selector looks for the period of a record: in its identifier for a
\* generalPractitioner record (gp), in the record itself for a name record
HasPeriodHolder(gp, record) == gp => "identifier" \in DOMAIN record

PeriodHolder(gp, record) == IF gp THEN record.identifier ELSE record

\* the record has a period with a start and an end
TimeBounded(gp, record) ==
    /\ HasPeriodHolder(gp, record)
    /\ "period" \in DOMAIN PeriodHolder(gp, record)
    /\ {"start", "end"} \subseteq DOMAIN PeriodHolder(gp, record).period

\* and both are dates
WellFormed(gp, record) ==
    /\ TimeBounded(gp, record)
    /\ PeriodHolder(gp, record).period.start.iso
    /\ PeriodHolder(gp, record).period.end.iso

\* start <= date <= end
Covers(gp, record, date) ==
    /\ PeriodHolder(gp, record).period.start.day <= date
    /\ date <= PeriodHolder(gp, record).period.end.day

\* the positions of the well-formed records that cover the date
Covering(gp, records, date) ==
    { k \in DOMAIN records :
          WellFormed(gp, records[k]) /\ Covers(gp, records[k], date) }

Least(positions) == CHOOSE k \in positions : \A j \in positions : k <= j

\* C13: on a list of records that all have a period of two dates, the selector
\* returns the first record in input order with start <= date <= end, both
\* bounds inclusive, and None when the list is empty or no record covers the
\* date.
C13_FirstCoveringRecord ==
    (/\ SelectorDone
     /\ \A k \in DOMAIN unit.records : WellFormed(OfGps, unit.records[k])) =>
        LET covering == Covering(OfGps, unit.records, unit.today)
        IN  IF covering = {} THEN unit.result = Return(None)
            ELSE unit.result = Return(unit.records[Least(covering)])

\* two records cover the date, the first of them by its end bound, and the
\* first is returned
C13_Witness ==
    /\ SelectorDone
    /\ Len(unit.records) = 2
    /\ \A k \in 1..2 : WellFormed(OfGps, unit.records[k])
    /\ Covering(OfGps, unit.records, unit.today) = {1, 2}
    /\ PeriodHolder(OfGps, unit.records[1]).period.end.day = unit.today
    /\ PeriodHolder(OfGps, unit.records[1]).period.start.day < unit.today
    /\ unit.result = Return(unit.records[1])
    /\ unit.records[1] # unit.records[2]

\* the positions at which a selector can stop: a record that covers the date,
\* or one that is not well formed
Stops(gp, records, date) ==
    { k \in DOMAIN records :
          ~WellFormed(gp, records[k]) \/ Covers(gp, records[k], date) }

\* the last record a selector examines lacks its period, start or end
ExaminedLacksPeriod(gp, records, date) ==
    /\ Stops(gp, records, date) # {}
    /\ ~TimeBounded(gp, records[Least(Stops(gp, records, date))])

\* C14: when a record the selector examines (a record up to and including
\* the first that covers the date) has no period, no period.start or no
\* period.end, the selection fails with an error (KeyError); the record is
\* not skipped and no later record is returned.
C14_MissingPeriodIsAnError ==
    (SelectorDone /\ ExaminedLacksPeriod(OfGps, unit.records, unit.today)) =>
        unit.result = Raise("KeyError")

\* a record without period.start in front of a record that covers the date:
\* an error, not the second record
C14_Witness ==
    /\ SelectorDone
    /\ Len(unit.records) = 2
    /\ HasPeriodHolder(OfGps, unit.records[1])
    /\ "period" \in DOMAIN PeriodHolder(OfGps, unit.records[1])
    /\ "start" \notin DOMAIN PeriodHolder(OfGps, unit.records[1]).period
    /\ Covering(OfGps, unit.records, unit.today) = {2}
    /\ unit.result = Raise("KeyError")

---------------------------------------------------------------------------
(* Properties of the identity registry adapter, PdsClient *)

\* PdsClient asked the registry for the patient of invocation i
RegistryAsked(i) ==
    /\ clients.pds = "PdsClient"
    /\ frame[i].pds_result # Pending

\* what the registry did on the GET
RegistryAnswer(i) == pds_service[frame[i].nhs_number]

\* the registry answered 200 with a Patient resource that has an id, alone or
\* as the first entry of a Bundle
PatientAnswered(i) ==
    /\ RegistryAsked(i)
    /\ RegistryAnswer(i).transport = "ok"
    /\ RegistryAnswer(i).status_code = 200
    /\ RegistryAnswer(i).json.kind = "return"
    /\ LET doc == RegistryAnswer(i).json.value
       IN  \/ doc.resourceType = "Patient"
           \/ /\ doc.resourceType = "Bundle"
              /\ doc.entry # <<>>
              /\ "resource" \in DOMAIN doc.entry[1]

PatientOf(i) ==
    LET doc == RegistryAnswer(i).json.value
    IN  IF doc.resourceType = "Patient" THEN doc ELSE doc.entry[1].resource

\* the list has a record current at the date, found without meeting a
\* record that is not well formed
HasCurrent(gp, records, date) ==
    /\ Stops(gp, records, date) # {}
    /\ WellFormed(gp, records[Least(Stops(gp, records, date))])

\* every record is well formed and none is current at the date
NoneCurrent(gp, records, date) == Stops(gp, records, date) = {}

\* C15: when the patient document of the registry has an examined name record
\* without period fields, or (the name being found) an examined
\* generalPractitioner record without period fields, call_gp_connect returns
\* no 404 and no other response: the KeyError leaves it unhandled.
C15_MalformedDocumentPropagates ==
    \A i \in Invocations :
        (/\ Done(i)
         /\ PatientAnswered(i)
         /\ \/ ExaminedLacksPeriod(FALSE, PatientOf(i).name, Today)
            \/ /\ HasCurrent(FALSE, PatientOf(i).name, Today)
               /\ ExaminedLacksPeriod(TRUE, PatientOf(i).generalPractitioner, Today)) =>
            /\ frame[i].outcome = Raise("KeyError")
            /\ ServicesCalled(i) = {"pds"}

\* a generalPractitioner record without period behind one that is no longer
\* current: KeyError out of call_gp_connect
C15_Witness ==
    /\ Done(1)
    /\ PatientAnswered(1)
    /\ Len(PatientOf(1).generalPractitioner) = 2
    /\ ExaminedLacksPeriod(TRUE, PatientOf(1).generalPractitioner, Today)
    /\ frame[1].outcome = Raise("KeyError")

C17_GpOdsCode ==
    \A i \in Invocations :
        (PatientAnswered(i) /\ HasCurrent(FALSE, PatientOf(i).name, Today)) =>
            LET gps == PatientOf(i).generalPractitioner
            IN  /\ NoneCurrent(TRUE, gps, Today) =>
                      /\ frame[i].pds_result.kind = "return"
                      /\ frame[i].pds_result.value.t = "SearchResults"
                      /\ frame[i].pds_result.value.gp_ods_code = None
                /\ HasCurrent(TRUE, gps, Today) =>
                      /\ frame[i].pds_result.kind = "return"
                      /\ frame[i].pds_result.value.t = "SearchResults"
                      /\ frame[i].pds_result.value.gp_ods_code =
                            gps[Least(Stops(TRUE, gps, Today))].identifier.value

\* the second record of the list is the current one and its code is returned
C17_Witness ==
    /\ PatientAnswered(1)
    /\ HasCurrent(FALSE, PatientOf(1).name, Today)
    /\ Len(PatientOf(1).generalPractitioner) = 2
    /\ Covering(TRUE, PatientOf(1).generalPractitioner, Today) = {2}
    /\ frame[1].pds_result.kind = "return"
    /\ frame[1].pds_result.value.gp_ods_code = PyStr(<<"A12345">>)

\* a patient with a current name and no current generalPractitioner
C17_WitnessNone ==
    /\ PatientAnswered(1)
    /\ HasCurrent(FALSE, PatientOf(1).name, Today)
    /\ Len(PatientOf(1).generalPractitioner) = 1
    /\ NoneCurrent(TRUE, PatientOf(1).generalPractitioner, Today)
    /\ frame[1].pds_result.kind = "return"
    /\ frame[1].pds_result.value.gp_ods_code = None

\* C18: when the registry answers with an HTTP error status, a 404 for an
\* unknown patient included, search_patient_by_nhs_number raises
\* ExternalServiceError: it returns neither None nor a patient record.
C18_HttpErrorIsExternalServiceError ==
    \A i \in Invocations :
        (/\ RegistryAsked(i)
         /\ RegistryAnswer(i).transport = "ok"
         /\ RegistryAnswer(i).status_code >= 400) =>
            frame[i].pds_result = Raise("ExternalServiceError")

\* the registry's 404 with an OperationOutcome
C18_Witness ==
    /\ RegistryAsked(1)
    /\ RegistryAnswer(1).transport = "ok"
    /\ RegistryAnswer(1).status_code = 404
    /\ RegistryAnswer(1).json = Return([resourceType |-> "OperationOutcome"])
    /\ frame[1].pds_result = Raise("ExternalServiceError")

---------------------------------------------------------------------------
(* Properties of the record provider adapter, GpProviderClient *)

ProviderDone == unit.fn = "access_structured_record" /\ unit.done

\* post came back with a response
ResponseObtained == ProviderDone /\ unit.posted.kind = "return"

---------------------------------------------------------------------------
(* Properties of repeated calls *)

SameRequest(i, j) ==
    /\ request[i].request_body = request[j].request_body
    /\ request[i].headers = request[j].headers

---------------------------------------------------------------------------
(* Properties of the downstream calls of one invocation *)

\* the trace and correlation identifiers a downstream call carries
TraceIdsOf(call) ==
    CASE call.service = "pds" ->
            {call.request_id, call.correlation_id}
            \cup { call.headers[h] :
                     h \in DOMAIN call.headers
                           \cap {"X-Request-ID", "X-Correlation-ID"} }
      [] call.service = "sds" -> {}
      [] call.service = "gp"  -> {call.trace_id}

\* C21 as stated: every downstream call made for a request (identity lookup,
\* both directory lookups, provider fetch) carries the X-Request-ID of the
\* request as its trace or correlation identifier.
C21_TraceIdOnEveryCall ==
    \A k \in 1..Len(calls) :
        request[calls[k].inv].headers["X-Request-ID"] \in TraceIdsOf(calls[k])

\* the four stages that call a downstream service, in the order of the code
Stages == <<"pds", "sds", "sds", "gp">>

\* the identity stage of invocation i gave a provider ODS code
IdentityResolved(i) ==
    /\ LookedUp(frame[i].pds_result)
    /\ Record(frame[i].pds_result) # None
    /\ truthy(Record(frame[i].pds_result).gp_ods_code)

\* the directory entry of the owning organisation has ASID and endpoint
ProviderResolved(i) ==
    /\ LookedUp(frame[i].provider_details)
    /\ Record(frame[i].provider_details) # None
    /\ ~Blank(Record(frame[i].provider_details).asid)
    /\ ~Blank(Record(frame[i].provider_details).endpoint)

\* the directory entry of the requesting organisation has an ASID
ConsumerResolved(i) ==
    /\ LookedUp(frame[i].consumer_details)
    /\ Record(frame[i].consumer_details) # None
    /\ ~Blank(Record(frame[i].consumer_details).asid)

\* C22: the downstream calls of one invocation are made in the order identity
\* lookup, directory lookup of the provider, directory lookup of the
\* consumer, provider fetch; each is made only when every stage before it
\* succeeded; and a failing entry of the provider is reported without the
\* consumer's entry being looked up.
C22_StagesInOrder ==
    \A i \in Invocations :
        LET made == CallsOf(i)
        IN  /\ Len(made) <= 4
            /\ \A k \in 1..Len(made) : made[k].service = Stages[k]
            /\ Len(made) >= 1 => frame[i].trace_id # None
            /\ Len(made) >= 2 =>
                  /\ IdentityResolved(i)
                  /\ made[2].ods_code = Record(frame[i].pds_result).gp_ods_code
            /\ Len(made) >= 3 =>
                  /\ ProviderResolved(i)
                  /\ made[3].ods_code = frame[i].consumer_ods
            /\ Len(made) = 4 => ConsumerResolved(i)
            /\ (Done(i) /\ Len(made) = 2 /\ LookedUp(frame[i].provider_details)) =>
                  /\ ReturnedStatus(i, 404)
                  /\ BodyContains(i, IF Record(frame[i].provider_details) = None
                                     THEN "No SDS org found for provider ODS code "
                                     ELSE "SDS result for provider ODS code ")
                  /\ frame[i].consumer_details = Pending

\* provider and consumer are the same organisation, the directory has no
\* entry for it, and the error reported is the provider's
C22_Witness ==
    /\ Done(1)
    /\ frame[1].provider_ods = frame[1].consumer_ods
    /\ frame[1].provider_details = Return(None)
    /\ Len(CallsOf(1)) = 2
    /\ Returned(1, 404,
           PyStr(<<"No SDS org found for provider ODS code ", "ORG1">>), None)

\* how many of the calls are made to the service
Count(made, service) ==
    Cardinality({ k \in 1..Len(made) : made[k].service = service })

\* C23: in one invocation the identity lookup is made at most once, the
\* directory lookup at most once for the provider and at most once for the
\* consumer, and the provider fetch at most once, whatever the services
\* return or raise; after a failure nothing is asked again.
C23_NoRetry ==
    \A i \in Invocations :
        LET made == CallsOf(i)
        IN  /\ Count(made, "pds") <= 1
            /\ Count(made, "sds") <= 2
            /\ Count(made, "gp") <= 1
            /\ Count(made, "sds") = 2 =>
                  \E k \in 1..(Len(made) - 1) :
                      /\ made[k].service = "sds"
                      /\ made[k].ods_code = frame[i].provider_ods
                      /\ made[k + 1].service = "sds"
                      /\ made[k + 1].ods_code = frame[i].consumer_ods
            /\ (Done(i) /\ DownstreamRaise(i) # {}) =>
                  made[Len(made)].service \in {"pds", "sds", "gp"}

\* the identity lookup raised and was made once
C23_Witness ==
    /\ Done(1)
    /\ frame[1].pds_result = Raise("ExternalServiceError")
    /\ Count(CallsOf(1), "pds") = 1
    /\ Len(CallsOf(1)) = 1

\* the GpConnectClient made of what invocation i resolved for its request
OwnClient(i) ==
    [t |-> "GpConnectClient",
     provider_endpoint |-> frame[i].provider_endpoint,
     provider_asid     |-> frame[i].provider_asid,
     consumer_asid     |-> frame[i].consumer_asid]

\* C24 as stated: however the steps of two invocations interleave, on one
\* Controller or on two, the provider fetch of each invocation is made with
\* the endpoint, provider ASID and consumer ASID resolved for its own
\* request, and its response is the one the provider gives to that fetch.
C24_FetchUsesOwnDetails ==
    \A k \in 1..Len(calls) :
        calls[k].service = "gp" =>
            LET i   == calls[k].inv
                own == [calls[k] EXCEPT !.inv = 0, !.client = OwnClient(i)]
            IN  /\ calls[k].client = OwnClient(i)
                /\ own \in DOMAIN gp_service => frame[i].response = gp_service[own]

---------------------------------------------------------------------------
(* Properties of the transport layer *)

TransportDone == unit.fn = "handle" /\ unit.pc = "done"

\* the body of the Controller's response is a JSON document
Decodable(flask_response) ==
    truthy(flask_response.data) /\ flask_response.data.v \in JsonDocuments

\* C28 as stated: the HTTP response has the status code of the Controller's
\* response, for every outcome of the Controller.
C28_SameStatusCode ==
    TransportDone =>
        unit.result.value.status = unit.flask_response.status_code

\* C28: the HTTP response has the status code of the Controller's response
\* when the body of that response is empty or a JSON document; a body that
\* is not empty and not JSON, as the plain-text bodies of the 400, 404 and
\* 502 answers are, gives status 500 with an OperationOutcome.
C28_StatusCodeOfDecodedBody ==
    TransportDone =>
        LET given == unit.flask_response
            built == unit.result.value
        IN  /\ (~truthy(given.data) \/ Decodable(given)) =>
                   built.status = given.status_code
            /\ (truthy(given.data) /\ ~Decodable(given)) =>
                   /\ built.status = 500
                   /\ built.response.t = "OperationOutcome"
            /\ given.status_code \in {400, 404, 502} /\ given.headers = None =>
                   built.status = 500

\* a 404 of the Controller with a plain-text body has become a 500
C28_Witness ==
    /\ TransportDone
    /\ unit.flask_response.status_code = 404
    /\ unit.flask_response.data =
          PyStr(<<"No SDS org found for provider ODS code ", "ORG1">>)
    /\ unit.result.value.status = 500

---------------------------------------------------------------------------
(* Properties of sds_search.SdsClient.get_org_details *)

SdsDone == unit.fn = "get_org_details" /\ unit.pc = "done"

\* the query types of the GETs made so far, in order
Queries == [k \in 1..Len(calls) |-> calls[k].querytype]

\* the entries of a bundle that was received
EntriesOf(queried) ==
    IF queried.kind = "return" THEN dict_get(queried.value.d, "entry", <<>>)
    ELSE <<>>

\* the first entry of the bundle, as a resource
FirstResource(queried) ==
    dict_get(EntriesOf(queried)[1].d, "resource", Dict(<<>>))

\* the value of the first identifier of the system that has a value
IdentifierOf(resource, system) ==
    LET identifiers == dict_get(resource.d, "identifier", <<>>)
        found == { k \in DOMAIN identifiers :
                     /\ identifiers[k].d["system"] = system
                     /\ "value" \in DOMAIN identifiers[k].d
                     /\ identifiers[k].d["value"].v # <<>> }
    IN  IF found = {} THEN None
        ELSE LET value == identifiers[Least(found)].d["value"]
             IN  IF Blank(value) THEN PyStr(<<>>) ELSE Trimmed(value)

\* the Endpoint bundle gives no address: none received, no entry, or a first
\* entry without a non-empty address
NoAddress(queried) ==
    \/ EntriesOf(queried) = <<>>
    \/ "address" \notin DOMAIN FirstResource(queried).d
    \/ FirstResource(queried).d["address"].v = <<>>

\* C25: the Device query is made first; a Device bundle without entry gives
\* None and no Endpoint query; the Endpoint query is made, after the Device
\* query, exactly when a non-empty party key was extracted from the device;
\* and without party key, or with an Endpoint bundle that has no entry or no
\* address, the result has the ASID of the device and endpoint None.
C25_DeviceThenEndpoint ==
    /\ Queries \in { <<>>, <<"Device">>, <<"Device", "Endpoint">> }
    /\ unit.pc = "endpoint" => Queries = <<"Device">> /\ truthy(unit.party_key)
    /\ Len(Queries) = 2 =>
          /\ unit.device_bundle.kind = "return"
          /\ EntriesOf(unit.device_bundle) # <<>>
          /\ truthy(IdentifierOf(FirstResource(unit.device_bundle), PARTYKEY_SYSTEM))
          /\ calls[2].party_key =
                IdentifierOf(FirstResource(unit.device_bundle), PARTYKEY_SYSTEM)
    /\ (SdsDone /\ unit.device_bundle.kind = "return") =>
          IF EntriesOf(unit.device_bundle) = <<>>
          THEN unit.result = Return(None) /\ Queries = <<"Device">>
          ELSE LET device == FirstResource(unit.device_bundle)
                   asid   == IdentifierOf(device, ASID_SYSTEM)
               IN  /\ ~truthy(IdentifierOf(device, PARTYKEY_SYSTEM)) =>
                       /\ Queries = <<"Device">>
                       /\ unit.result = Return(SdsSearchResults(asid, None))
                   /\ truthy(IdentifierOf(device, PARTYKEY_SYSTEM)) =>
                       /\ Queries = <<"Device", "Endpoint">>
                       /\ (unit.endpoint_bundle.kind = "return"
                           /\ NoAddress(unit.endpoint_bundle)) =>
                              unit.result = Return(SdsSearchResults(asid, None))

\* the device has ASID and party key, the Endpoint bundle has no entry
C25_Witness ==
    /\ SdsDone
    /\ Queries = <<"Device", "Endpoint">>
    /\ unit.endpoint_bundle = Return(Dict("entry" :> <<>>))
    /\ unit.result = Return(SdsSearchResults(PyStr(<<"asid-1">>), None))

\* the device has no party key: one query, ASID without endpoint
C25_WitnessNoPartyKey ==
    /\ SdsDone
    /\ Queries = <<"Device">>
    /\ unit.result = Return(SdsSearchResults(PyStr(<<"asid-2">>), None))

\* the positions of the entries whose period covers the date
CurrentEntries(queried, date) ==
    { k \in DOMAIN EntriesOf(queried) :
        /\ "resource" \in DOMAIN EntriesOf(queried)[k].d
        /\ "period" \in DOMAIN EntriesOf(queried)[k].d["resource"].d
        /\ EntriesOf(queried)[k].d["resource"].d["period"].start.day <= date
        /\ date <= EntriesOf(queried)[k].d["resource"].d["period"].end.day }

\* C27 as stated: of several Device entries the adapter takes the one whose
\* validity period covers the reference date; the ASID of the result is the
\* ASID of that entry.
C27_CurrentEntryChosen ==
    (SdsDone /\ unit.result.kind = "return" /\ unit.result.value # None
        /\ CurrentEntries(unit.device_bundle, Today) # {}) =>
        unit.result.value.asid =
            IdentifierOf(
                EntriesOf(unit.device_bundle)
                    [Least(CurrentEntries(unit.device_bundle, Today))].d["resource"],
                ASID_SYSTEM)

\* C27: of several entries the adapter takes the first in the order of the
\* bundle, whatever the validity periods are: ASID and party key are those
\* of the first Device entry, the endpoint is the address of the first
\* Endpoint entry.
C27_FirstEntryChosen ==
    (SdsDone /\ unit.result.kind = "return" /\ unit.result.value # None) =>
        /\ unit.result.value.asid =
              IdentifierOf(FirstResource(unit.device_bundle), ASID_SYSTEM)
        /\ unit.party_key =
              IdentifierOf(FirstResource(unit.device_bundle), PARTYKEY_SYSTEM)
        /\ unit.endpoint_bundle.kind = "return" =>
              unit.result.value.endpoint =
                  IF NoAddress(unit.endpoint_bundle) THEN None
                  ELSE Trimmed(FirstResource(unit.endpoint_bundle).d["address"])

\* two Device entries, the first no longer valid, the second valid on the
\* reference date: the result has the ASID of the first
C27_Witness ==
    /\ SdsDone
    /\ unit.device_bundle.kind = "return"
    /\ Len(EntriesOf(unit.device_bundle)) = 2
    /\ CurrentEntries(unit.device_bundle, Today) = {2}
    /\ IdentifierOf(EntriesOf(unit.device_bundle)[2].d["resource"], ASID_SYSTEM)
          = PyStr(<<"asid-2">>)
    /\ unit.result.kind = "return"
    /\ unit.result.value.asid = PyStr(<<"asid-1">>)

---------------------------------------------------------------------------
(* Properties of the provider fetch of call_gp_connect *)

---------------------------------------------------------------------------
(* Properties of the identity lookup made with the PdsClient of pds_search *)

\* the exceptions of a search the registry answered; JSONDecodeError, raised
\* by response.json(), is a ValueError
SearchExceptions ==
    {"ExternalServiceError", "RuntimeError", "KeyError", "ValueError",
     "JSONDecodeError"}

---------------------------------------------------------------------------
(* Properties of the two readers of an NHS number *)

\* the "nhs-number" value of the request of invocation i, if it has one that
\* is a str or an int
HasNhsNumber(i) ==
    LET body == request[i].request_body.loads
    IN  /\ body.kind = "return"
        /\ body.value.t = "dict"
        /\ "nhs-number" \in DOMAIN body.value.d
        /\ body.value.d["nhs-number"].t \in {"str", "int"}

NhsNumberOf(i) == request[i].request_body.loads.value.d["nhs-number"]

\* C30 as stated: a value validate_nhs_number accepts (ten digits, with
\* spaces or hyphens between them or none, a leading 0 included, as str or
\* int) is taken by _coerce_nhs_number_to_int without an exception, and
\* call_gp_connect does not answer 400 for it.
C30_ValidatedIsCoerced ==
    \A i \in Invocations :
        (/\ frame[i].pc # "body"
         /\ HasNhsNumber(i)
         /\ validate_nhs_number(NhsNumberOf(i)) = Return(TRUE)) =>
            /\ _coerce_nhs_number_to_int(NhsNumberOf(i)).kind = "return"
            /\ ~(ReturnedStatus(i, 400)
                 /\ BodyContains(i, "Could not coerce NHS number \""))

====
